---- MODULE Spec2Model ----
(***************************************************************************)
(* Control Tower topic tailing (src/src/controltower/topic_tailer.cc):     *)
(* one LogReader on one log, the TopicManager of that log, the worker's    *)
(* command queue (TopicTailer::Forward), the log storage behind the        *)
(* LogTailer, and the messages handed to on_message_.                      *)
(***************************************************************************)
EXTENDS Integers, Sequences, FiniteSets, TLC

\* ------------------------------------------------------------------ bounds

\* Longest log the storage holds (seqnos 1..MaxSeq).
MaxSeq == 3
\* Client calls (AddSubscriber / RemoveSubscriber) in one behaviour.
MaxCmds == 2
\* Capacity of the worker's command queue; Forward fails when it is full.
MaxQueue == 2
\* Highest seqno a subscribe names as its start.
MaxStart == 2
\* Seqnos of the log that may lie in gaps (benign or malignant).
MaxGaps == 1
\* max_subscription_lag handed to TopicTailer::Initialize.
MaxSubscriptionLag == 1

\* SequenceNumber is an unsigned 64-bit integer; the model keeps unsigned
\* wrap-around at a narrower width.
SeqnoMod == 2 ^ 8

Topics == {"T", "U"}
\* A topic the LogRouter maps to no log.
UnroutedTopic == "X"
Hosts == {"A", "B"}
MalignantTypes == {"Retention", "DataLoss"}
NoSub == -1

VARIABLES
  log,          \* storage: what seqno i holds, at log[i], as far as read
  reading,      \* storage: is the reader reading the log
  storage_pos,  \* storage: next seqno it delivers to the reader
  can_past_end, \* LogTailer::CanSubscribePastEnd(), once it has been asked
  queue,        \* commands forwarded to the worker loop, in order
  finds,        \* FindLatestSeqno requests in flight
  topic_map,    \* TopicManager of the log: topic -> host -> next seqno
  log_state,    \* LogReader::log_state_[log]
  sent,         \* messages passed to on_message_, per current subscription
  requested,    \* the start seqno the current subscription asked for
  previous,     \* the subscription an unsubscribe ended last, per host
  cancelled,    \* FindLatestSeqno requests whose subscriber has been
                \* unsubscribed by the worker while they were in flight
  asserted,     \* assertions of the code that have failed
  ret,          \* the last client call, callback or worker command, and
                \* the Status it ended with
  ncmds,        \* client calls made so far
  flow,         \* FlowControl of an event loop set: its sources and sinks
  proxy,        \* Proxy: its sessions, and what the servers and callbacks saw
  cache,        \* DataCache of the tailer, and the subscriptions it serves
  pool          \* the LogReaders of a worker, when it has more than one

\* The topic tailer, and what runs beside it.
tailer == <<log, reading, storage_pos, can_past_end, queue, finds, topic_map,
            log_state, sent, requested, previous, cancelled, asserted, ret,
            ncmds>>
others == <<flow, proxy, cache, pool>>
\* What runs beside the flows, beside the proxy and beside the cache.
notflow == <<tailer, proxy, cache, pool>>
notproxy == <<tailer, flow, cache, pool>>
notcache == <<flow, proxy, pool>>
notpool == <<tailer, flow, proxy, cache>>

vars == <<tailer, others>>

\* ------------------------------------------------------- unsigned arithmetic

Add(x, y) == (x + y) % SeqnoMod
Sub(x, y) == (x - y + SeqnoMod) % SeqnoMod
Min(x, y) == IF x < y THEN x ELSE y
Max(x, y) == IF x < y THEN y ELSE x

\* ------------------------------------------------------------ LinkedMap

IndexOf(topics, topic) ==
  IF \E i \in 1..Len(topics) : topics[i].topic = topic
  THEN CHOOSE i \in 1..Len(topics) : topics[i].topic = topic
  ELSE 0

RemoveAt(s, i) == SubSeq(s, 1, i - 1) \o SubSeq(s, i + 1, Len(s))
MoveToBack(s, i) == Append(RemoveAt(s, i), s[i])
MoveToFront(s, i) == <<s[i]>> \o RemoveAt(s, i)

\* ------------------------------------------------------------ TopicManager

TMAddSubscriber(tm, topic, seqno, host) == [tm EXCEPT ![topic][host] = seqno]
TMRemoveSubscriber(tm, topic, host) == [tm EXCEPT ![topic][host] = NoSub]
TMHas(tm, topic, host) == tm[topic][host] # NoSub

\* The subscribers VisitSubscribers(topic, from, to, ...) visits.
VisitSubscribers(tm, topic, from, to) ==
  {h \in Hosts :
     /\ tm[topic][h] # NoSub
     /\ IF tm[topic][h] = 0
        THEN from = 0 /\ to = 0
        ELSE from <= tm[topic][h] /\ tm[topic][h] <= to}

\* The topics VisitTopics enumerates.
VisitTopics(tm) == {t \in DOMAIN tm : \E h \in Hosts : tm[t][h] # NoSub}

SetSequenceNumber(tm, topic, hosts, seqno) ==
  [tm EXCEPT ![topic] = [h \in Hosts |-> IF h \in hosts THEN seqno ELSE @[h]]]

\* ------------------------------------------------------------- messages

\* A record that always claims to be the first on its topic.
DeliverFromZero(prev_seqno, seqno) ==
  [kind |-> "Deliver", type |-> "-", a |-> 0, b |-> seqno]

Deliver(prev_seqno, seqno) ==
  [kind |-> "Deliver", type |-> "-", a |-> prev_seqno, b |-> seqno]
Gap(type, from, to) == [kind |-> "Gap", type |-> type, a |-> from, b |-> to]

\* on_message_(msg, hosts) for a message on `topic`.
OnMessage(m, topic, hosts, msg) ==
  [m EXCEPT !.sent[topic] =
     [h \in Hosts |-> IF h \in hosts THEN Append(@[h], msg) ELSE @[h]]]

Fail(m, what) == [m EXCEPT !.asserted = @ \cup {what}]

\* ---------------------------------------------------------------- LogReader

ClosedLog ==
  [open |-> FALSE, start_seqno |-> 0, last_read |-> 0, tail_seqno |-> 0,
   num_subscribers |-> 0, topics |-> <<>>]

\* A reader that leaves the topic's next_seqno where it was.
AdvanceTopicNowhere(topics, i, seqno) == MoveToBack(topics, i)

\* The topic at `i` has been read up to `seqno`: next_seqno = seqno + 1 and
\* the topic moves to the back of the map.
AdvanceTopic(topics, i, seqno) ==
  MoveToBack([topics EXCEPT ![i].next_seqno = Add(seqno, 1)], i)

\* A reader that looks at the tail estimate only for a record it accepts.
ProcessRecordInOrder(ls, seqno, topic) ==
  IF ~ls.open \/ seqno # Add(ls.last_read, 1) THEN <<FALSE, 0, FALSE, ls>>
  ELSE
    LET is_tail == ls.tail_seqno # 0 /\ ls.tail_seqno <= seqno
        ls1 == IF is_tail THEN [ls EXCEPT !.tail_seqno = Add(seqno, 1)] ELSE ls
        i == IndexOf(ls.topics, topic)
    IN IF i # 0
       THEN <<TRUE, ls.topics[i].next_seqno, is_tail,
              [ls1 EXCEPT !.last_read = seqno,
                          !.topics = AdvanceTopic(@, i, seqno)]>>
       ELSE <<TRUE, 0, is_tail, [ls1 EXCEPT !.last_read = seqno]>>

\* LogReader::ProcessRecord: <<status ok, prev_seqno, is_tail, log state>>.
ProcessRecord(ls, seqno, topic) ==
  IF ~ls.open THEN <<FALSE, 0, FALSE, ls>>
  ELSE
    LET is_tail == ls.tail_seqno # 0 /\ ls.tail_seqno <= seqno
        ls1 == IF is_tail THEN [ls EXCEPT !.tail_seqno = Add(seqno, 1)] ELSE ls
        i == IndexOf(ls.topics, topic)
    IN IF seqno # Add(ls1.last_read, 1) THEN <<FALSE, 0, is_tail, ls1>>
       ELSE IF i # 0
         THEN <<TRUE, ls.topics[i].next_seqno, is_tail,
                [ls1 EXCEPT !.last_read = seqno,
                            !.topics = AdvanceTopic(@, i, seqno)]>>
         ELSE <<TRUE, 0, is_tail, [ls1 EXCEPT !.last_read = seqno]>>

\* A reader that takes a gap wherever it starts.
ValidateGapAnywhere(ls, from) == ls.open

\* LogReader::ValidateGap.
ValidateGap(ls, from) == ls.open /\ from = Add(ls.last_read, 1)

\* LogReader::ProcessGap: <<prev_seqno, log state>>.
ProcessGap(ls, topic, to) ==
  LET ls1 == IF ls.tail_seqno # 0 /\ ls.tail_seqno <= to
             THEN [ls EXCEPT !.tail_seqno = Add(to, 1)] ELSE ls
      i == IndexOf(ls.topics, topic)
  IN IF i # 0
     THEN <<ls.topics[i].next_seqno,
            [ls1 EXCEPT !.topics = AdvanceTopic(@, i, to)]>>
     ELSE <<0, ls1>>

\* A flush that leaves the reader where it was.
FlushHistoryNowhere(ls, seqno) == ls

\* LogReader::FlushHistory.
FlushHistory(ls, seqno) ==
  IF ls.open
  THEN [ls EXCEPT !.start_seqno = seqno, !.last_read = Sub(seqno, 1)]
  ELSE ls

\* A reader that stays where it was over a benign gap.
ProcessBenignGapNowhere(ls, from, to) == ls

\* LogReader::ProcessBenignGap.
ProcessBenignGap(ls, from, to) ==
  IF ls.open THEN [ls EXCEPT !.last_read = to] ELSE ls

\* LogReader::SuggestTailSeqno.
SuggestTailSeqno(ls, seqno) ==
  IF ls.open
  THEN [ls EXCEPT !.tail_seqno =
          Max(ls.tail_seqno, Max(Add(ls.last_read, 1), seqno))]
  ELSE ls

\* Visitors that leave the subscription where it was, or at `seqno` itself.
AdvanceNowhere(tm, topic, hosts, seqno) == tm
AdvanceToSeqno(tm, topic, hosts, seqno) ==
  SetSequenceNumber(tm, topic, hosts, seqno)

\* What every visitor of TopicTailer does to the subscriptions it visits for
\* an event that ends at `seqno`: sub->SetSequenceNumber(seqno + 1).
Advance(tm, topic, hosts, seqno) ==
  SetSequenceNumber(tm, topic, hosts, Add(seqno, 1))

\* A reader that bumps no topic.
BumpLaggingSubscriptionsNever(m, seqno, fuel) == m

\* LogReader::BumpLaggingSubscriptions with the on_bump callback of
\* TopicTailer::SendLogRecord: `fuel` bounds the loop for the model.
RECURSIVE BumpLaggingSubscriptions(_, _, _)
BumpLaggingSubscriptions(m, seqno, fuel) ==
  IF ~m.ls.open \/ m.ls.topics = <<>> THEN m
  ELSE
    LET front == m.ls.topics[1]
        tseqno == front.next_seqno
    IN IF Add(tseqno, MaxSubscriptionLag) < seqno
       THEN
         IF fuel = 0 THEN Fail(m, "bump loop does not end")
         ELSE
           LET bumped_hosts == VisitSubscribers(m.tm, front.topic, tseqno, seqno)
               m1 == [m EXCEPT !.tm = Advance(@, front.topic, bumped_hosts, seqno)]
               m2 == IF bumped_hosts # {}
                     THEN OnMessage(m1, front.topic, bumped_hosts,
                                    Gap("Benign", tseqno, seqno))
                     ELSE m1
               m3 == [m2 EXCEPT !.ls.topics =
                        [MoveToBack(@, 1) EXCEPT
                           ![Len(@)].next_seqno = Add(seqno, 1)]]
           IN BumpLaggingSubscriptions(m3, seqno, fuel - 1)
       ELSE m

\* A reader that rewinds an open log for no one.
ReseekOnOpen(first_open, reseek, seqno, last_read) == first_open /\ reseek

\* "No need to reseek if we are yet to reach that sequence number."
NeedsReseek(first_open, reseek, seqno, last_read) ==
  IF ~first_open /\ reseek THEN seqno <= last_read ELSE reseek

\* A reader that never stops reading.
StopReadingNever(m, topic) == m

\* The reader is left as it is.
StartReadingNowhere(m, topic, seqno) == m

\* LogReader::StartReading, with LogTailer::StartReading succeeding.
StartReading(m, topic, seqno) ==
  LET first_open == ~m.ls.open
      ls0 == IF first_open
             THEN [open |-> TRUE, start_seqno |-> seqno,
                   last_read |-> Sub(seqno, 1), tail_seqno |-> 0,
                   num_subscribers |-> 0, topics |-> <<>>]
             ELSE m.ls
      i == IndexOf(ls0.topics, topic)
      reseek0 == IF i = 0 THEN TRUE ELSE seqno < ls0.topics[i].next_seqno
      topics1 ==
        IF i = 0
        THEN <<[topic |-> topic, next_seqno |-> seqno, num_subscribers |-> 1]>>
               \o ls0.topics
        ELSE MoveToFront(
               [ls0.topics EXCEPT ![i].next_seqno = Min(@, seqno)], i)
      reseek == NeedsReseek(first_open, reseek0, seqno, ls0.last_read)
      ls1 == [ls0 EXCEPT !.topics = topics1]
      m1 == IF seqno < ls1.start_seqno /\ ~reseek
            THEN Fail(m, "StartReading: assert(reseek)") ELSE m
      ls2 == IF reseek
             THEN [ls1 EXCEPT !.start_seqno = Min(@, seqno),
                              !.last_read = Sub(seqno, 1)]
             ELSE ls1
      \* seqno < start_seqno cannot hold after the min: FlushHistory is dead.
      ls3 == IF reseek /\ seqno < ls2.start_seqno
             THEN FlushHistory(ls2, seqno) ELSE ls2
      ls4 == [ls3 EXCEPT !.num_subscribers = @ + 1,
                         !.topics[1].num_subscribers = @ + 1]
  IN [m1 EXCEPT !.ls = ls4,
                !.reading = IF reseek THEN TRUE ELSE @,
                !.pos = IF reseek THEN seqno ELSE @]

\* LogReader::StartReading, with LogTailer::StartReading failing when it is
\* called: the log and topic entries made or moved before the call stay, and
\* the function returns before it counts the subscriber.
StartReadingFails(m, topic, seqno) ==
  LET first_open == ~m.ls.open
      ls0 == IF first_open
             THEN [open |-> TRUE, start_seqno |-> seqno,
                   last_read |-> Sub(seqno, 1), tail_seqno |-> 0,
                   num_subscribers |-> 0, topics |-> <<>>]
             ELSE m.ls
      i == IndexOf(ls0.topics, topic)
      reseek0 == IF i = 0 THEN TRUE ELSE seqno < ls0.topics[i].next_seqno
      topics1 ==
        IF i = 0
        THEN <<[topic |-> topic, next_seqno |-> seqno, num_subscribers |-> 1]>>
               \o ls0.topics
        ELSE MoveToFront(
               [ls0.topics EXCEPT ![i].next_seqno = Min(@, seqno)], i)
      reseek == NeedsReseek(first_open, reseek0, seqno, ls0.last_read)
      m1 == IF seqno < ls0.start_seqno /\ ~reseek
            THEN Fail(m, "StartReading: assert(reseek)") ELSE m
  IN IF reseek THEN [m1 EXCEPT !.ls = [ls0 EXCEPT !.topics = topics1]]
     ELSE StartReading(m, topic, seqno)

\* LogReader::StopReading, with LogTailer::StopReading succeeding.
StopReading(m, topic) ==
  IF ~m.ls.open THEN Fail(m, "StopReading: not reading this log")
  ELSE IF m.ls.num_subscribers = 1
    THEN [m EXCEPT !.ls = ClosedLog, !.reading = FALSE]
    ELSE
      LET i == IndexOf(m.ls.topics, topic)
          ls1 == [m.ls EXCEPT !.num_subscribers = @ - 1]
      IN IF i = 0
         THEN Fail([m EXCEPT !.ls = ls1], "StopReading: topic not found")
         ELSE IF ls1.topics[i].num_subscribers - 1 = 0
           THEN [m EXCEPT !.ls = [ls1 EXCEPT !.topics = RemoveAt(@, i)]]
           ELSE [m EXCEPT !.ls =
                   [ls1 EXCEPT !.topics[i].num_subscribers = @ - 1]]

\* ------------------------------------------------------------- TopicTailer

\* The state the worker thread owns, as one record.
Machine ==
  [ls |-> log_state, tm |-> topic_map, sent |-> sent, requested |-> requested,
   previous |-> previous,
   reading |-> reading, pos |-> storage_pos, asserted |-> asserted]

\* A subscription starts (or is replaced): its message history starts empty.
Subscription(start, msgs) == [start |-> start, sent |-> msgs]
NoSubscription == Subscription(NoSub, <<>>)

NewSubscription(m, topic, host, start) ==
  [m EXCEPT !.sent[topic][host] = <<>>, !.requested[topic][host] = start,
            !.previous[topic][host] =
               IF TMHas(m.tm, topic, host) THEN NoSubscription ELSE @]

\* The command AddSubscriber forwards for start # 0.
AddSubscriberCommand(m, topic, start, host) ==
  LET was_added == ~TMHas(m.tm, topic, host)
      m1 == [NewSubscription(m, topic, host, start) EXCEPT
               !.tm = TMAddSubscriber(@, topic, start, host)]
      m2 == IF was_added THEN m1 ELSE StopReading(m1, topic)
  IN StartReading(m2, topic, start)

\* The same command when the storage fails to start reading: the status
\* of LogReader::StartReading is not looked at.
AddSubscriberCommandFails(m, topic, start, host) ==
  LET was_added == ~TMHas(m.tm, topic, host)
      m1 == [NewSubscription(m, topic, host, start) EXCEPT
               !.tm = TMAddSubscriber(@, topic, start, host)]
      m2 == IF was_added THEN m1 ELSE StopReading(m1, topic)
  IN StartReadingFails(m2, topic, start)

\* A gap that reaches the tail itself.
TailGapToTail(seqno) == Gap("Benign", 0, seqno)

\* The message that tells a tail subscriber the latest seqno.
TailGap(seqno) == Gap("Benign", 0, Sub(seqno, 1))

\* A tail subscribe that registers the subscriber where the reader starts.
TailSubscriberCommandAtStart(m, topic, seqno, host, past_end) ==
  LET at == IF past_end = "yes" THEN seqno ELSE Sub(seqno, 1)
      m0 == OnMessage(NewSubscription(m, topic, host, 0), topic, {host},
                      TailGap(seqno))
      was_added == ~TMHas(m.tm, topic, host)
      m1 == [m0 EXCEPT !.tm = TMAddSubscriber(@, topic, at, host)]
      m2 == IF was_added THEN m1 ELSE StopReading(m1, topic)
  IN [StartReading(m2, topic, at) EXCEPT !.ls = SuggestTailSeqno(@, seqno)]

\* The command the FindLatestSeqno callback forwards (start = 0); `past_end`
\* is what LogTailer::CanSubscribePastEnd() answers.
TailSubscriberCommand(m, topic, seqno, host, past_end) ==
  LET m0 == OnMessage(NewSubscription(m, topic, host, 0), topic, {host},
                      TailGap(seqno))
      was_added == ~TMHas(m.tm, topic, host)
      m1 == [m0 EXCEPT !.tm = TMAddSubscriber(@, topic, seqno, host)]
      m2 == IF was_added THEN m1 ELSE StopReading(m1, topic)
      m3 == IF past_end = "yes"
            THEN StartReading(m2, topic, seqno)
            ELSE StartReading(m2, topic, Sub(seqno, 1))
  IN [m3 EXCEPT !.ls = SuggestTailSeqno(@, seqno)]

\* The command RemoveSubscriber forwards.
RemoveSubscriberCommand(m, topic, host) ==
  IF TMHas(m.tm, topic, host)
  THEN StopReading(
         [m EXCEPT !.tm = TMRemoveSubscriber(@, topic, host),
                   !.sent[topic][host] = <<>>,
                   !.requested[topic][host] = NoSub,
                   !.previous[topic][host] =
                      Subscription(m.requested[topic][host],
                                   m.sent[topic][host])], topic)
  ELSE m

\* The command SendLogRecord forwards.
SendLogRecordCommand(m, seqno, topic) ==
  LET pr == ProcessRecord(m.ls, seqno, topic)
      ok == pr[1]
      prev_seqno == pr[2]
      is_tail == pr[3]
      hosts == VisitSubscribers(m.tm, topic, prev_seqno, seqno)
      m1 == [m EXCEPT !.ls = pr[4],
                      !.tm = Advance(@, topic, hosts, seqno)]
      tail_hosts == IF is_tail THEN VisitSubscribers(m1.tm, topic, 0, 0) ELSE {}
      m2 == [m1 EXCEPT !.tm = Advance(@, topic, tail_hosts, seqno)]
      m3 == IF tail_hosts # {}
            THEN OnMessage(m2, topic, tail_hosts, Deliver(0, seqno)) ELSE m2
      m4 == IF hosts # {}
            THEN OnMessage(m3, topic, hosts, Deliver(prev_seqno, seqno)) ELSE m3
  IN IF ~ok THEN [m EXCEPT !.ls = pr[4]]
     ELSE IF prev_seqno = 0
       THEN IF hosts # {}
            THEN Fail(m1, "SendLogRecord: assert(hosts.empty())") ELSE m1
       ELSE BumpLaggingSubscriptions(m4, seqno, Len(m4.ls.topics) + 1)

\* The command SendGapRecord forwards; `order` is the order in which
\* VisitTopics enumerates the subscribed topics.
RECURSIVE GapTopics(_, _, _, _)
GapTopics(m, order, type, to) ==
  IF order = <<>> THEN m
  ELSE
    LET topic == Head(order)
        pg == ProcessGap(m.ls, topic, to)
        prev_seqno == pg[1]
        m0 == IF prev_seqno = 0
              THEN Fail(m, "SendGapRecord: assert(prev_seqno != 0)") ELSE m
        hosts == VisitSubscribers(m.tm, topic, prev_seqno, to)
        m1 == [m0 EXCEPT !.ls = pg[2],
                         !.tm = Advance(@, topic, hosts, to)]
        m2 == OnMessage(m1, topic, hosts, Gap(type, prev_seqno, to))
    IN GapTopics(m2, Tail(order), type, to)

SendGapRecordCommand(m, type, from, to, order) ==
  IF ~ValidateGap(m.ls, from) THEN m
  ELSE
    LET m1 == GapTopics(m, order, type, to)
    IN IF type = "Benign"
       THEN [m1 EXCEPT !.ls = ProcessBenignGap(@, from, to)]
       ELSE [m1 EXCEPT !.ls = FlushHistory(@, Add(to, 1))]

\* Every order in which the topics of `S` can be enumerated.
Orders(S) ==
  {o \in [1..Cardinality(S) -> S] : \A i, j \in DOMAIN o : i # j => o[i] # o[j]}

Execute(m, cmd, order, past_end) ==
  CASE cmd.op = "subscribe" -> AddSubscriberCommand(m, cmd.topic, cmd.seqno, cmd.host)
    [] cmd.op = "tail" ->
         TailSubscriberCommand(m, cmd.topic, cmd.seqno, cmd.host, past_end)
    [] cmd.op = "unsubscribe" -> RemoveSubscriberCommand(m, cmd.topic, cmd.host)
    [] cmd.op = "record" -> SendLogRecordCommand(m, cmd.seqno, cmd.topic)
    [] cmd.op = "gap" -> SendGapRecordCommand(m, cmd.type, cmd.seqno, cmd.to, order)

Command(op, topic, host, type, seqno, to) ==
  [op |-> op, topic |-> topic, host |-> host, type |-> type,
   seqno |-> seqno, to |-> to]

Return(op, topic, status) == [op |-> op, topic |-> topic, status |-> status]

\* The Status a command ends with on the worker: that of ProcessRecord or
\* ValidateGap for a record or a gap, OK for the others.
CommandStatus(m, cmd) ==
  CASE cmd.op = "record" ->
         IF ProcessRecord(m.ls, cmd.seqno, cmd.topic)[1] THEN "OK" ELSE "NotFound"
    [] cmd.op = "gap" -> IF ValidateGap(m.ls, cmd.seqno) THEN "OK" ELSE "NotFound"
    [] OTHER -> "OK"

\* TopicTailer::Forward: MsgLoop::SendCommand fails when the queue is full.
CanForward == Len(queue) < MaxQueue

\* ------------------------------------------------------------ FlowControl
\* The event loops of src/src/util/tests/flow_test.cc: queues that are read
\* by a source callback (InstallSource) and written to through a Flow. A
\* sink that is full keeps the value it is handed and has the source that
\* wrote it paused until the sink has taken all it was handed (spec 4.5).

\* kNumMessages: the values the test thread writes, one to each input queue
\* on every turn of its loop (to the next input queue in MultiLayerRandomized).
MaxItems == 3
\* kSmallQueue: the capacity of the queues that are made to overflow.
SmallQueue == 1

\* kLayers = 3 and kPerLayer = 2 of MultiLayerRandomized: queue[i][j][k] is
\* read by processor j of layer i and written by processor k of layer i - 1.
LayerQueues ==
  << << <<"queue[1][0][0]", "queue[1][0][1]">>,
        <<"queue[1][1][0]", "queue[1][1][1]">> >>,
     << <<"queue[2][0][0]", "queue[2][0][1]">>,
        <<"queue[2][1][0]", "queue[2][1][1]">> >> >>
LayerQueue(i, j, k) == LayerQueues[i][j + 1][k + 1]
Layer(i) == {LayerQueue(i, j, k) : j \in 0..1, k \in 0..1}
Input(i) == <<"input[0]", "input[1]">>[i + 1]
\* The processor that reads queue q of layer i.
Processor(i, q) == CHOOSE j \in 0..1 : \E k \in 0..1 : LayerQueue(i, j, k) = q
\* The input queue that processor i of the top layer reads.
InputOf(q) == CHOOSE i \in 0..1 : Input(i) = q

Nets == {"PartitionedFlow", "Fanout", "MultiLayerRandomized",
         "SourcelessFlow", "ObservableMap", "ObservableSet",
         "RetryLaterSink", "RateLimiterSink", "BackpressureStatsAndLogging"}

\* The queues the test thread writes to.
Inputs(net) ==
  CASE net = "PartitionedFlow" -> {"queue0", "queue2"}
    [] net = "Fanout" -> {"queue0"}
    [] net = "MultiLayerRandomized" -> {Input(0), Input(1)}
    [] net = "RetryLaterSink" -> {"queue"}
    [] net = "RateLimiterSink" -> {"queue0"}
    [] net = "BackpressureStatsAndLogging" -> {"source_queue"}
    [] OTHER -> {}

\* The queues a source callback was installed on.
Sources(net) ==
  CASE net = "PartitionedFlow" -> {"queue0", "queue01", "queue2", "queue23"}
    [] net = "Fanout" -> {"queue0", "queue01", "queue02"}
    [] net = "MultiLayerRandomized" ->
         {Input(0), Input(1)} \cup Layer(1) \cup Layer(2)
    [] net = "SourcelessFlow" -> {"queue"}
    [] net = "ObservableMap" -> {"obs_map", "queue"}
    [] net = "ObservableSet" -> {"obs_set"}
    [] net = "RetryLaterSink" -> {"queue"}
    [] net = "RateLimiterSink" -> {"queue0", "queue1"}
    [] net = "BackpressureStatsAndLogging" -> {"source_queue", "sink_queue"}
    [] OTHER -> {}

\* The sinks that are no queues.
Sinks(net) ==
  CASE net = "RetryLaterSink" -> {"sink"}
    [] net = "RateLimiterSink" -> {"rate_limiter_sink"}
    [] OTHER -> {}

\* The sources whose callbacks write to queues, if they write.
QueuesOnly(net, q) ==
  /\ net = "RetryLaterSink" => q # "queue"
  /\ net = "RateLimiterSink" => q # "queue0"

\* The queues a read callback is installed on.
Installed(net, q) ==
  net = "BackpressureStatsAndLogging" => q # "sink_queue"

\* flow_control_blocked_warn_period.
WarnPeriod == 1

\* The queue a RateLimiterSink stands before.
Underlying(net) == IF net = "RateLimiterSink" THEN {"queue1"} ELSE {}

AllQueues == UNION {Sources(net) \cup Sinks(net) : net \in Nets}

\* TestImpl(num_messages, rate_limit, reader_size, rate_duration, ...) of
\* RateLimiterSinkFlowTest: rate_limit writes per rate_duration, into a queue
\* of reader_size.
RateLimit == 1
RateDuration == 2
ReaderSize == 1
\* How long the test thread and the reader may take before the last write.
MaxClock == 3

\* The size each queue was made with (MakeIntQueue).
Capacity(net, q) ==
  CASE net = "PartitionedFlow" /\ q = "queue01" -> SmallQueue
    [] net = "Fanout" /\ q \in {"queue01", "queue02"} -> SmallQueue
    [] net = "MultiLayerRandomized" /\ q \in Layer(1) \cup Layer(2) ->
         SmallQueue
    [] net = "SourcelessFlow" -> MaxItems \div 2
    [] net = "ObservableMap" -> 1
    [] net = "RateLimiterSink" /\ q = "queue1" -> ReaderSize
    [] net = "BackpressureStatsAndLogging" /\ q = "sink_queue" -> 1
    [] OTHER -> MaxItems

\* The values the test thread may write to an input queue as its i-th.
Values(net, i) ==
  IF net = "MultiLayerRandomized" THEN 0..3 ELSE {i}

\* What the callback installed on q writes when it is handed value x: a
\* sequence of <<sink, value>>.
Writes(net, q, x) ==
  CASE net = "PartitionedFlow" /\ q = "queue0" -> << <<"queue01", x>> >>
    [] net = "PartitionedFlow" /\ q = "queue2" -> << <<"queue23", x>> >>
    [] net = "Fanout" /\ q = "queue0" ->
         << <<"queue01", x>>, <<"queue02", x>> >>
    [] net = "MultiLayerRandomized" /\ q \in {Input(0), Input(1)} ->
         << <<LayerQueue(1, x % 2, InputOf(q)), x \div 2>> >>
    [] net = "MultiLayerRandomized" /\ q \in Layer(1) ->
         << <<LayerQueue(2, x % 2, Processor(1, q)), x \div 2>> >>
    [] net = "BackpressureStatsAndLogging" /\ q = "source_queue" ->
         << <<"sink_queue", x>> >>
    [] OTHER -> << >>

\* The callbacks that count what they are handed (sem.Post()).
Counts(net, q) == q \in Sources(net) /\ \A x \in 0..3 : Writes(net, q, x) = << >>

\* The keys of the ObservableSet test.
SetKeys == {"a", "b", "c", "explode", "explode again", "bad explosion"}
\* kNumKeys: the callbacks the second part of the test waits for.
MaxKeys == 3
\* done_after in the first part of the test: 3, and 2 as well, so that Clear
\* finds a key in the set.
FirstDoneAfter == {2, 3}

\* The longest time the handler of the RetryLaterSink test backs off for.
MaxBackoff == 2
\* How often it answers RetryAfter.
MaxRetries == 2
\* The answers the handler may give next.
Backoffs(f) ==
  IF Cardinality({i \in 1..Len(f.offers) : f.offers[i].backoff > 0})
       < MaxRetries
  THEN 0..MaxBackoff ELSE {0}

NoSource == "-"
NoFlow == [net |-> "-"]

\* The event loops before the test thread writes anything.
NewFlow(net) ==
  [net |-> net,
   queue |-> [q \in AllQueues |-> << >>],
   pending |-> [q \in AllQueues |-> << >>],
   backpressure |-> [q \in AllQueues |-> {}],
   blockers |-> [q \in AllQueues |-> 0],
   enabled |-> [q \in AllQueues |-> q \in Sources(net)],
   posted |-> [q \in AllQueues |-> << >>],
   written |-> [q \in AllQueues |-> 0],
   map |-> << >>,
   set |-> {},
   kept |-> [key \in SetKeys |-> 0],
   commands |-> << >>,
   processed |-> [key \in SetKeys |-> 0],
   done_after |-> 0,
   done |-> 0,
   test |-> 0,
   clock |-> 0,
   retry_at |-> 0,
   offers |-> << >>,
   period_start |-> 0,
   available |-> RateLimit,
   passed |-> << >>,
   unregistered |-> {},
   blocked_since |-> [q \in AllQueues |-> 0],
   warn_at |-> [q \in AllQueues |-> 0],
   warnings |-> << >>,
   backpressure_applied |-> 0,
   backpressure_lifted |-> 0]

\* A value the test thread wrote: `id` numbers the writes to the input
\* queue `from`; the callbacks only look at x.
Item(from, id, x) == [from |-> from, id |-> id, x |-> x]

\* Sink::Write on a queue: the value goes into the queue when there is room
\* and nothing waits before it, and else waits in the sink.
HasRoom(f, sink) ==
  /\ f.pending[sink] = << >>
  /\ Len(f.queue[sink]) < Capacity(f.net, sink)

\* A sink that is full refuses the value and forgets it.
SinkWriteOrDrop(f, sink, item) ==
  IF HasRoom(f, sink)
  THEN [f EXCEPT !.queue[sink] = Append(@, item)]
  ELSE f

SinkWrite(f, sink, item) ==
  IF HasRoom(f, sink)
  THEN [f EXCEPT !.queue[sink] = Append(@, item)]
  ELSE [f EXCEPT !.pending[sink] = Append(@, item)]

\* The source is counted as blocked for every sink that refuses its write.
AddBackpressurePerWrite(f, source, sink) ==
  IF source = NoSource \/ source \in f.backpressure[sink]
  THEN f
  ELSE [f EXCEPT !.backpressure[sink] = @ \cup {source},
                 !.blockers[source] = @ + 1,
                 !.enabled[source] = FALSE,
                 !.blocked_since[source] =
                    IF f.blockers[source] = 0 THEN f.clock ELSE @,
                 !.warn_at[source] =
                    IF f.blockers[source] = 0 THEN f.clock + WarnPeriod ELSE @,
                 !.backpressure_applied = @ + 1]

\* The source is paused for the sink, once per sink that blocks it; a source
\* that was not blocked is blocked from now on.
AddBackpressure(f, source, sink) ==
  IF source = NoSource \/ source \in f.backpressure[sink]
  THEN f
  ELSE [f EXCEPT !.backpressure[sink] = @ \cup {source},
                 !.blockers[source] = @ + 1,
                 !.enabled[source] = FALSE,
                 !.blocked_since[source] =
                    IF f.blockers[source] = 0 THEN f.clock ELSE @,
                 !.warn_at[source] =
                    IF f.blockers[source] = 0 THEN f.clock + WarnPeriod ELSE @,
                 !.backpressure_applied =
                    IF f.blockers[source] = 0 THEN @ + 1 ELSE @]

\* Flow::Write(sink, value) of the flow of `source`.
Write(f, source, sink, item) ==
  IF HasRoom(f, sink)
  THEN SinkWrite(f, sink, item)
  ELSE AddBackpressure(SinkWrite(f, sink, item), source, sink)

RECURSIVE WriteAll(_, _, _, _)
WriteAll(f, source, item, writes) ==
  IF writes = << >> THEN f
  ELSE WriteAll(Write(f, source, writes[1][1],
                      [item EXCEPT !.x = writes[1][2]]),
                source, item, Tail(writes))

\* The callback installed on q, run on the value at the head of q.
ReadCallback(f, q) ==
  LET item == Head(f.queue[q])
      f1 == [f EXCEPT !.queue[q] = Tail(@),
                      !.posted[q] = IF Counts(f.net, q)
                                    THEN Append(@, item) ELSE @]
  IN WriteAll(f1, q, item, Writes(f.net, q, item.x))

\* The keys of the ObservableMap test.
Keys == {"a", "b"}

\* ObservableMap::Write(key, value): the value of the key that waits to be
\* read, if any, is replaced.
ObservableMapWriteFirst(map, key, value) ==
  [k \in DOMAIN map \cup {key} |-> IF k \in DOMAIN map THEN map[k] ELSE value]

ObservableMapWrite(map, key, value) ==
  [k \in DOMAIN map \cup {key} |-> IF k = key THEN value ELSE map[k]]

\* The read callback of the map takes the value of one key out of it.
ObservableMapRead(f, key) ==
  Write([f EXCEPT !.map = [k \in DOMAIN f.map \ {key} |-> f.map[k]]],
        "obs_map", "queue", Item(key, f.map[key], f.map[key]))

\* ObservableSet::Add, Remove and Clear. `kept` counts, per key, the
\* additions that put the key into the set and were not undone by a Remove
\* or a Clear before the key was read.
ObservableSetAdd(f, key) ==
  [f EXCEPT !.set = @ \cup {key},
            !.kept[key] = IF key \in f.set THEN @ ELSE @ + 1]

ObservableSetRemove(f, key) ==
  [f EXCEPT !.set = @ \ {key},
            !.kept[key] = IF key \in f.set THEN @ - 1 ELSE @]

ObservableSetClear(f) ==
  [f EXCEPT !.set = {},
            !.kept = [key \in SetKeys |->
                        IF key \in f.set THEN @[key] - 1 ELSE @[key]]]

\* The callback the ObservableSet test installs on obs_set.
ObservableSetCallback(f, key) ==
  LET f1 == [f EXCEPT !.processed[key] = @ + 1,
                      !.posted["obs_set"] = Append(@, Item(key, 0, 0))]
      f2 == [f1 EXCEPT !.done_after = @ - 1]
  IN IF f.done_after = 0 THEN f1
     ELSE IF f2.done_after = 0
       THEN ObservableSetClear([f2 EXCEPT !.done = @ + 1])
       ELSE IF key \in {"explode", "explode again"}
         THEN ObservableSetAdd(
                ObservableSetRemove(ObservableSetAdd(f2, "bad explosion"),
                                    "bad explosion"),
                "explode again")
         ELSE f2

\* The set forgets a key after its callback has run.
ObservableSetReadThenErase(f, key) ==
  [ObservableSetCallback(f, key) EXCEPT !.set = @ \ {key}]

\* The read callback of the set takes a key out of it and hands it on.
ObservableSetRead(f, key) ==
  ObservableSetCallback([f EXCEPT !.set = @ \ {key}], key)

\* Sink::FlushPending: what waits in the sink goes into the queue as far as
\* there is room.
FlushPending(f, sink) ==
  LET n == Min(Len(f.pending[sink]),
               Capacity(f.net, sink) - Len(f.queue[sink]))
  IN [f EXCEPT !.queue[sink] = @ \o SubSeq(f.pending[sink], 1, n),
               !.pending[sink] = SubSeq(@, n + 1, Len(@))]

\* The sources the sink was blocking read again, whatever else blocks them.
UnblockAtOnce(f, sink) ==
  [f EXCEPT
     !.backpressure[sink] = {},
     !.blockers = [q \in AllQueues |->
                     IF q \in f.backpressure[sink] THEN @[q] - 1 ELSE @[q]],
     !.enabled = [q \in AllQueues |->
                    IF q \in f.backpressure[sink] THEN TRUE ELSE @[q]],
     !.backpressure_lifted = @ + Cardinality(f.backpressure[sink])]

\* The sources the sink was blocking read again, unless another sink still
\* blocks them.
Unblock(f, sink) ==
  [f EXCEPT
     !.backpressure[sink] = {},
     !.blockers = [q \in AllQueues |->
                     IF q \in f.backpressure[sink] THEN @[q] - 1 ELSE @[q]],
     !.enabled = [q \in AllQueues |->
                    IF q \in f.backpressure[sink] /\ f.blockers[q] = 1
                    THEN TRUE ELSE @[q]],
     !.backpressure_lifted =
        @ + Cardinality({q \in f.backpressure[sink] : f.blockers[q] = 1})]

\* FlowControl::RemoveBackpressure(sink), run when the sink can be written.
RemoveBackpressure(f, sink) ==
  LET f1 == FlushPending(f, sink)
  IN IF f1.pending[sink] = << >> THEN Unblock(f1, sink) ELSE f1

\* The handler of the RetryLaterSink test is offered a value and answers
\* with the time to back off for, or 0 when it takes the value.
Offer(f, item, backoff) ==
  [f EXCEPT !.offers = Append(@, [x |-> item.x, at |-> f.clock,
                                  backoff |-> backoff])]

\* The sink offers the value again at once.
RetryAtOnce(now, backoff) == now

\* When the sink offers a value again that was answered with RetryAfter.
RetryAt(now, backoff) == now + backoff

\* RetryLaterSink::Write: the value is offered to the handler, unless one
\* waits before it; a value not taken waits in the sink.
RetryLaterSinkWrite(f, source, item, backoff) ==
  IF f.pending["sink"] # << >>
  THEN AddBackpressure([f EXCEPT !.pending["sink"] = Append(@, item)],
                       source, "sink")
  ELSE IF backoff = 0
    THEN Offer(f, item, 0)
    ELSE AddBackpressure(
           [Offer(f, item, backoff) EXCEPT
              !.pending["sink"] = <<item>>,
              !.retry_at = RetryAt(f.clock, backoff)],
           source, "sink")

\* RetryLaterSink::FlushPending, run by FlowControl::RemoveBackpressure when
\* the time to back off for is over: the value that waits is offered again.
RetryLaterSinkFlush(f, backoff) ==
  LET f1 == Offer(f, Head(f.pending["sink"]), backoff)
  IN IF backoff = 0
     THEN LET f2 == [f1 EXCEPT !.pending["sink"] = Tail(@)]
          IN IF f2.pending["sink"] = << >> THEN Unblock(f2, "sink") ELSE f2
     ELSE [f1 EXCEPT !.retry_at = RetryAt(f.clock, backoff)]

\* FlowControl::UnregisterSource: no sink blocks the source any longer, and
\* its callback is not run again.
UnregisterSource(f, source) ==
  [f EXCEPT
     !.unregistered = @ \cup {source},
     !.backpressure = [s \in AllQueues |-> @[s] \ {source}],
     !.blockers[source] = 0,
     !.enabled[source] = FALSE,
     !.backpressure_lifted = IF f.blockers[source] > 0 THEN @ + 1 ELSE @]

\* The sources that have been blocked for a warn period since they were
\* blocked or warned about.
Overdue(f) ==
  {q \in Sources(f.net) : f.blockers[q] > 0 /\ f.clock >= f.warn_at[q]}

\* The warning "source '...' blocked".
WarnBlocked(f, q) ==
  [f EXCEPT !.warnings = Append(@, [source |-> q, at |-> f.clock]),
            !.warn_at[q] = @ + WarnPeriod]

\* RateLimiter::IsAllowed at time `now`: a period that is over is followed
\* by one that starts now, with the whole limit available.
Period(f) ==
  IF f.clock - f.period_start >= RateDuration
  THEN [f EXCEPT !.period_start = f.clock, !.available = RateLimit]
  ELSE f

IsAllowed(f) == Period(f).available > 0

\* The limiter lets a write pass whenever it is asked.
TakeAny(f) == Period(f)

\* RateLimiter::TakeOne, when IsAllowed.
TakeOne(f) == [Period(f) EXCEPT !.available = @ - 1]

\* The sink passes a value on to the queue behind it.
Pass(f, item) ==
  LET f1 == TakeOne(f)
  IN SinkWrite([f1 EXCEPT !.passed = Append(@, [x |-> item.x, at |-> f.clock,
                                               period |-> f1.period_start])],
               "queue1", item)

\* RateLimiterSink::Write: the value is passed on if the limiter allows it
\* and nothing waits before it; the sink reports full if it was not, or if
\* the queue behind it could not take it.
RateLimiterSinkWrite(f, source, item) ==
  IF f.pending["rate_limiter_sink"] = << >> /\ IsAllowed(f)
  THEN IF HasRoom(f, "queue1")
       THEN Pass(f, item)
       ELSE AddBackpressure(Pass(f, item), source, "rate_limiter_sink")
  ELSE AddBackpressure(
         [f EXCEPT !.pending["rate_limiter_sink"] = Append(@, item)],
         source, "rate_limiter_sink")

\* Both the limiter and the queue behind the sink are ready.
RateLimiterSinkReady(f) ==
  /\ f.pending["rate_limiter_sink"] # << >> \/ f.pending["queue1"] # << >>
  /\ f.pending["rate_limiter_sink"] # << >> => IsAllowed(f)
  /\ Len(f.queue["queue1"]) < Capacity(f.net, "queue1")

\* RateLimiterSink::FlushPending: what waits in the sink is passed on as far
\* as the limiter allows and the queue behind it has room.
RECURSIVE RateLimiterSinkFlush(_)
RateLimiterSinkFlush(f) ==
  IF /\ f.pending["rate_limiter_sink"] # << >>
     /\ IsAllowed(f)
     /\ HasRoom(f, "queue1")
  THEN RateLimiterSinkFlush(
         Pass([f EXCEPT !.pending["rate_limiter_sink"] = Tail(@)],
              Head(f.pending["rate_limiter_sink"])))
  ELSE f

\* FlowControl::RemoveBackpressure for the sink: its sources read again once
\* neither the sink nor the queue behind it holds a value back.
RateLimiterSinkUnblock(f) ==
  IF /\ f.pending["rate_limiter_sink"] = << >>
     /\ f.pending["queue1"] = << >>
  THEN Unblock(f, "rate_limiter_sink")
  ELSE f

\* ------------------------------------------------------------------- Proxy

\* The sessions the tests forward for (123 and 123 + 1).
Sessions == {123, 124}
\* ProxyOptions::ordering_buffer_size: how far ahead of the next expected
\* seqno a message may be and still be held.
OrderingBufferSize == 2
\* The highest seqno forwarded, which is beyond the buffer.
MaxSeqno == 3
\* How many messages are forwarded.
MaxForwards == 4
\* Forward(msg, session, -1): the message is not ordered.
Unordered == 0 - 1

NoProxy == [started |-> FALSE]

\* Proxy::Start(on_message, on_disconnect): no session is known.
NewProxy ==
  [started |-> TRUE,
   known |-> {},
   next |-> [s \in Sessions |-> 0],
   epoch |-> [s \in Sessions |-> 0],
   held |-> [s \in Sessions |-> {}],
   forwarded |-> << >>,
   servers |-> << >>,
   answered |-> {},
   on_message |-> << >>,
   on_disconnect |-> << >>,
   destroyed |-> << >>]

\* The id-th message forwarded, with the seqno its session expected then
\* and how often the session had been forgotten.
Msg(p, session, seqno) ==
  [session |-> session, seqno |-> seqno, id |-> Len(p.forwarded),
   expected |-> p.next[session], epoch |-> p.epoch[session]]

\* The message reaches the pilot or copilot.
ToServer(p, msg) == [p EXCEPT !.servers = Append(@, msg)]

\* The session is forgotten together with what was held for it.
Erase(p, session) ==
  [p EXCEPT !.known = @ \ {session},
            !.next[session] = 0,
            !.epoch[session] = @ + 1,
            !.held[session] = {}]

\* The processor of a session hands on the messages held for the seqnos that
\* come next.
RECURSIVE Release(_, _)
Release(p, session) ==
  IF \E m \in p.held[session] : m.seqno = p.next[session]
  THEN LET m == CHOOSE m \in p.held[session] : m.seqno = p.next[session]
       IN Release([ToServer(p, m) EXCEPT !.held[session] = @ \ {m},
                                        !.next[session] = @ + 1],
                  session)
  ELSE p

\* The buffer takes a message however far ahead it is.
NeverTooFar(next, seqno) == FALSE

\* The seqno does not fit the buffer of a session that expects `next`.
TooFar(next, seqno) == seqno - next > OrderingBufferSize

\* The proxy drops a session it cannot order: on_disconnect({session}).
Disconnect(p, session) ==
  [Erase(p, session) EXCEPT !.on_disconnect = Append(@, session)]

\* A held message is handed on as soon as it comes.
ProcessUnordered(p, msg, again) == ToServer(p, msg)

\* OrderedProcessor::Process for a message of a session: the one expected
\* is handed on with those held behind it, one that is ahead is held if it
\* fits, and the session is dropped if it does not; `again` tells what is
\* done with a seqno that was handed on or is held already.
Process(p, msg, again) ==
  LET s == msg.session
      p1 == [p EXCEPT !.known = @ \cup {s}]
  IN IF msg.seqno = p1.next[s]
     THEN Release([ToServer(p1, msg) EXCEPT !.next[s] = @ + 1], s)
     ELSE IF msg.seqno < p1.next[s]
             \/ \E m \in p1.held[s] : m.seqno = msg.seqno
          THEN IF again = "drop" THEN p1 ELSE Disconnect(p1, s)
          ELSE IF TooFar(p1.next[s], msg.seqno)
               THEN Disconnect(p1, s)
               ELSE [p1 EXCEPT !.held[s] = @ \cup {msg}]

\* Proxy::Forward(msg, session, sequence) and the worker that handles it.
ProxyForward(p, session, seqno, again) ==
  LET msg == Msg(p, session, seqno)
      p1 == [p EXCEPT !.forwarded = Append(@, msg)]
  IN IF seqno = Unordered
     THEN ToServer(p1, msg)
     ELSE Process(p1, msg, again)

\* Proxy::DestroySession(session): the session is forgotten and the servers
\* are told that its client is gone, so what it sent is not answered.
ProxyDestroySession(p, session) ==
  [Erase(p, session) EXCEPT
     !.destroyed = Append(@, [session |-> session, at |-> Len(p.forwarded)]),
     !.answered = @ \cup {i \in 1..Len(p.servers) :
                            p.servers[i].session = session}]

\* --------------------------------------------------------------- DataCache

\* How many records the cache is seeded with.
MaxCached == 2
\* How many records a flow takes at most before it applies backpressure.
MaxRoom == 2

NoCache == [seeded |-> FALSE]

\* The cache holds the records 1..Len(records) of the log: records[i] is the
\* topic of the record at seqno i.
SeededCache(records) ==
  [seeded |-> TRUE,
   records |-> records,
   cache_readers |-> {},
   from_cache |-> [t \in Topics |-> [h \in Hosts |-> 0]],
   records_served_from_cache |-> 0]

\* The seqnos from `from` on at which the cache holds a record of the topic.
Cached(c, topic, from) ==
  {i \in from..Len(c.records) : c.records[i] = topic}

\* The seqnos DataCache::read visits from `from` on for a topic before the
\* visitor has taken `room` records.
Visited(c, topic, from, room) ==
  {i \in Cached(c, topic, from) :
     Cardinality({j \in Cached(c, topic, from) : j < i}) < room}

\* Where DataCache::read is to go on: after the last record visited if the
\* visitor applied backpressure, and else at the first seqno the cache does
\* not hold.
NewFrom(c, topic, from, room) ==
  IF Visited(c, topic, from, room) = Cached(c, topic, from)
  THEN Max(from, Len(c.records) + 1)
  ELSE 1 + CHOOSE i \in Visited(c, topic, from, room) :
             \A j \in Visited(c, topic, from, room) : j <= i

\* The cache after a read for a subscription of cache_readers: the
\* subscription stays there, at the seqno to go on at, if backpressure was
\* applied.
AfterRead(c, sub, room) ==
  LET visited == Visited(c, sub.topic, sub.seqno, room)
  IN [c EXCEPT
        !.cache_readers =
           (@ \ {sub}) \cup
           (IF visited = Cached(c, sub.topic, sub.seqno) THEN {}
            ELSE {[sub EXCEPT
                     !.seqno = NewFrom(c, sub.topic, sub.seqno, room)]}),
        !.from_cache[sub.topic][sub.host] = @ + Cardinality(visited),
        !.records_served_from_cache = @ + Cardinality(visited)]

\* The visitor is handed the records in the order of their seqnos; each
\* carries the seqno of the record handed over before it, or 0.
RECURSIVE DeliverCached(_, _, _, _, _)
DeliverCached(m, topic, host, seqnos, prev) ==
  IF seqnos = {} THEN m
  ELSE LET i == CHOOSE i \in seqnos : \A j \in seqnos : i <= j
       IN DeliverCached(OnMessage(m, topic, {host}, Deliver(prev, i)),
                        topic, host, seqnos \ {i}, i)

\* The seqno of the message the subscription was sent last, or 0.
LastSent(m, topic, host) ==
  IF m.sent[topic][host] = << >> THEN 0
  ELSE m.sent[topic][host][Len(m.sent[topic][host])].b

\* TopicTailer::DeliverFromCache: as much as the flow takes.
DeliverFromCache(m, c, topic, host, from, room) ==
  DeliverCached(m, topic, host, Visited(c, topic, from, room),
                LastSent(m, topic, host))

\* The subscription is handed to a LogReader at `seqno`: what the command
\* of AddSubscriber does, but for the subscription being a new one.
OpenReader(m, topic, host, seqno) ==
  StartReading([m EXCEPT !.tm = TMAddSubscriber(@, topic, seqno, host)],
               topic, seqno)

\* ------------------------------------------------- the LogReaders of a worker
\* A worker owns a pool of LogReaders (spec 4.4) that share the TopicManager
\* of a log: a subscription is assigned to one of them, and a reader can be
\* merged into another that is open on the same log (spec 4.4.4).

\* readers_per_room = 2.
Readers == {1, 2}
\* Subscribe and unsubscribe calls made to the worker.
MaxPoolCmds == 4

NoPool == [built |-> FALSE]

ClosedReader == [ls |-> ClosedLog, reading |-> FALSE, pos |-> 0]

\* The worker over a log that holds `records`, before any subscription.
NewPool(records) ==
  [built |-> TRUE,
   records |-> records,
   readers |-> [r \in Readers |-> ClosedReader],
   tm |-> [t \in Topics |-> [h \in Hosts |-> NoSub]],
   start |-> [t \in Topics |-> [h \in Hosts |-> NoSub]],
   reader |-> [t \in Topics |-> [h \in Hosts |-> 0]],
   sent |-> [t \in Topics |-> [h \in Hosts |-> <<>>]],
   merges |-> <<>>,
   asserted |-> {},
   ncmds |-> 0]

\* What the worker thread sees when it runs reader `r`, and the pool after.
ReaderMachine(rm, r) ==
  [ls |-> rm.readers[r].ls, reading |-> rm.readers[r].reading,
   pos |-> rm.readers[r].pos, tm |-> rm.tm, sent |-> rm.sent,
   asserted |-> rm.asserted]

ReaderBecomes(rm, r, m) ==
  [rm EXCEPT !.readers[r] = [ls |-> m.ls, reading |-> m.reading, pos |-> m.pos],
             !.tm = m.tm, !.sent = m.sent, !.asserted = m.asserted]

FirstReader(S) == CHOOSE r \in S : \A q \in S : r <= q

\* TopicTailer::ReaderForNewSubscription: a reader open on the log whose
\* last_read + 1 >= seqno, else the reader with the fewest open logs; 0 when
\* the subscription has to wait on the pending reader.
ReaderForNewSubscription(rm, seqno) ==
  LET fits == {r \in Readers : /\ rm.readers[r].ls.open
                               /\ Add(rm.readers[r].ls.last_read, 1) >= seqno}
      free == {r \in Readers : ~rm.readers[r].ls.open}
  IN IF fits # {} THEN FirstReader(fits)
     ELSE IF free # {} THEN FirstReader(free) ELSE 0

\* LogReader::CanMergeInto: the target is open on the log, ahead or equal.
CanMergeInto(rm, src, dst) ==
  /\ src # dst
  /\ rm.readers[src].ls.open
  /\ rm.readers[dst].ls.open
  /\ rm.readers[dst].ls.last_read >= rm.readers[src].ls.last_read

\* The per-topic table of the target once it has subsumed `from`.
RECURSIVE MergeTopics(_, _)
MergeTopics(into, from) ==
  IF from = <<>> THEN into
  ELSE
    LET e == Head(from)
        i == IndexOf(into, e.topic)
    IN MergeTopics(
         IF i = 0 THEN <<e>> \o into
         ELSE [into EXCEPT ![i].next_seqno = Min(@, e.next_seqno),
                           ![i].num_subscribers = @ + e.num_subscribers],
         Tail(from))

\* LogReader::MergeInto: the target subsumes the subscriptions `src` was
\* serving and `src` stops reading the log.
MergeInto(rm, src, dst) ==
  [rm EXCEPT
     !.readers[dst].ls =
        [@ EXCEPT !.topics = MergeTopics(@, rm.readers[src].ls.topics),
                  !.num_subscribers = @ + rm.readers[src].ls.num_subscribers],
     !.readers[src] = ClosedReader,
     !.reader = [t \in Topics |-> [h \in Hosts |->
                   IF rm.reader[t][h] = src THEN dst ELSE rm.reader[t][h]]],
     !.merges = Append(@, [src |-> src, dst |-> dst,
                           src_last |-> rm.readers[src].ls.last_read,
                           dst_last |-> rm.readers[dst].ls.last_read])]

\* TopicTailer::SendLogRecord for a record that reader `m` was delivered: a
\* reader that holds no entry for the topic serves no subscription on it, and
\* sends nothing (prev_seqno = 0).
ReaderSendLogRecord(m, seqno, topic) ==
  IF m.ls.open /\ IndexOf(m.ls.topics, topic) = 0
  THEN [m EXCEPT !.ls = ProcessRecord(m.ls, seqno, topic)[4]]
  ELSE SendLogRecordCommand(m, seqno, topic)

\* TopicTailer::AttemptReaderMerges(src, log_id).
AttemptReaderMerges(rm, src) ==
  LET targets == {dst \in Readers : CanMergeInto(rm, src, dst)}
  IN IF targets = {} THEN rm ELSE MergeInto(rm, src, FirstReader(targets))

\* ----------------------------------------------------------------- actions

\* The tailer after Initialize, with the router mapping `topics` to the log.
TailerOver(topics, records) ==
  /\ log = records
  /\ reading = FALSE
  /\ storage_pos = 0
  /\ can_past_end = "unknown"
  /\ queue = <<>>
  /\ finds = {}
  /\ topic_map = [t \in topics |-> [h \in Hosts |-> NoSub]]
  /\ log_state = ClosedLog
  /\ sent = [t \in topics |-> [h \in Hosts |-> <<>>]]
  /\ requested = [t \in topics |-> [h \in Hosts |-> NoSub]]
  /\ previous = [t \in topics |-> [h \in Hosts |-> NoSubscription]]
  /\ cancelled = {}
  /\ asserted = {}
  /\ ret = Return("-", "-", "-")
  /\ ncmds = 0

\* Nothing of the log has been read.
TailerInit(topics) == TailerOver(topics, <<>>)

\* The tailer alone: nothing else is set up.
InitOver(topics) ==
  /\ TailerInit(topics)
  /\ flow = NoFlow
  /\ proxy = NoProxy
  /\ cache = NoCache
  /\ pool = NoPool

Init == InitOver(Topics)

\* The storage either can or cannot subscribe past the end of a log; which
\* one shows when the capability is first asked for.
PastEnd == IF can_past_end = "unknown" THEN {"yes", "no"} ELSE {can_past_end}

\* The worker loop runs the command at the head of its queue.
Worker ==
  /\ queue # <<>>
  /\ \E order \in Orders(VisitTopics(topic_map)), past_end \in PastEnd :
       LET m == Execute(Machine, Head(queue), order, past_end)
       IN /\ can_past_end' = IF Head(queue).op = "tail" THEN past_end
                                                       ELSE can_past_end
          /\ log_state' = m.ls
          /\ topic_map' = m.tm
          /\ sent' = m.sent
          /\ requested' = m.requested
          /\ previous' = m.previous
          /\ reading' = m.reading
          /\ storage_pos' = m.pos
          /\ asserted' = m.asserted
  /\ ret' = Return(Head(queue).op, Head(queue).topic,
                   CommandStatus(Machine, Head(queue)))
  /\ cancelled' =
       IF Head(queue).op = "unsubscribe"
       THEN cancelled \cup {r.id : r \in {f \in finds :
                                /\ f.topic = Head(queue).topic
                                /\ f.host = Head(queue).host}}
       ELSE cancelled
  /\ queue' = Tail(queue)
  /\ UNCHANGED <<log, finds, ncmds>>
  /\ UNCHANGED others

\* A router that knows a log for every topic.
GetLogIDAlways(topic) == TRUE

\* LogRouter::GetLogID(topic, &logid) succeeds.
GetLogID(topic) == topic # UnroutedTopic

\* HostNumbers are handed out in order of first contact: the first call is
\* made by the first host.
KnownHost(host) == host = "A" \/ ncmds > 0

\* TopicTailer::AddSubscriber(topic, start, hostnum); `find_ok` is the status
\* LogTailer::FindLatestSeqno returns for the request.
AddSubscriber(topic, start, host, find_ok) ==
  /\ KnownHost(host)
  /\ ncmds' = ncmds + 1
  /\ IF ~GetLogID(topic)
     THEN /\ ret' = Return("AddSubscriber", topic, "RouterError")
          /\ UNCHANGED <<queue, finds>>
     ELSE IF start = 0
       THEN IF find_ok
            THEN /\ finds' = finds \cup
                      {[topic |-> topic, host |-> host, id |-> ncmds]}
                 /\ ret' = Return("AddSubscriber", topic, "OK")
                 /\ UNCHANGED queue
            ELSE /\ ret' = Return("AddSubscriber", topic, "IOError")
                 /\ UNCHANGED <<queue, finds>>
       ELSE IF CanForward
            THEN /\ queue' = Append(queue,
                      Command("subscribe", topic, host, "-", start, 0))
                 /\ ret' = Return("AddSubscriber", topic, "OK")
                 /\ UNCHANGED finds
            ELSE /\ ret' = Return("AddSubscriber", topic, "NoBuffer")
                 /\ UNCHANGED <<queue, finds>>
  /\ UNCHANGED <<log, reading, storage_pos, can_past_end, topic_map,
                 log_state, sent, requested, previous, cancelled,
                 asserted>>
  /\ UNCHANGED others

\* TopicTailer::RemoveSubscriber(topic, hostnum).
RemoveSubscriber(topic, host) ==
  /\ KnownHost(host)
  /\ ncmds' = ncmds + 1
  /\ IF ~GetLogID(topic)
     THEN /\ ret' = Return("RemoveSubscriber", topic, "RouterError")
          /\ UNCHANGED queue
     ELSE IF CanForward
          THEN /\ queue' = Append(queue,
                    Command("unsubscribe", topic, host, "-", 0, 0))
               /\ ret' = Return("RemoveSubscriber", topic, "OK")
          ELSE /\ ret' = Return("RemoveSubscriber", topic, "NoBuffer")
               /\ UNCHANGED queue
  /\ UNCHANGED <<log, reading, storage_pos, can_past_end, finds, topic_map,
                 log_state, sent, requested, previous, cancelled,
                 asserted>>
  /\ UNCHANGED others

\* ------------------------------------------------------------ log storage
\* The log is written to behind the storage (by the pilots). The model fixes
\* what the log holds when the tailer first observes it: a seqno when the
\* storage first reads it, the length of the log when FindLatestSeqno reports
\* the tail or a read reaches a seqno.
Unread == "?"
Written(l, n) ==
  [i \in 1..Max(Len(l), n) |-> IF i <= Len(l) THEN l[i] ELSE Unread]

\* The callback AddSubscriber hands to FindLatestSeqno, run with `status_ok`
\* and `seqno`, the next seqno to be written to the log.
FindLatestSeqnoCallback(r, status_ok, seqno) ==
  /\ r \in finds
  /\ finds' = finds \ {r}
  /\ seqno \in (Len(log) + 1)..(MaxSeq + 1)
  /\ IF status_ok
     THEN /\ log' = Written(log, seqno - 1)
          /\ IF CanForward
             THEN queue' = Append(queue,
                    Command("tail", r.topic, r.host, "-", seqno, 0))
             ELSE UNCHANGED queue
     ELSE /\ seqno = Len(log) + 1
          /\ UNCHANGED <<log, queue>>
  /\ ret' = Return("FindLatestSeqno", r.topic,
                   IF ~status_ok THEN "IOError"
                   ELSE IF CanForward THEN "OK" ELSE "NoBuffer")
  /\ UNCHANGED <<reading, storage_pos, can_past_end, topic_map,
                 log_state, sent, requested, previous, cancelled,
                 asserted, ncmds>>
  /\ UNCHANGED others

\* The seqno the storage delivers next (reading from 0 starts at the first).
ReadPos == IF storage_pos = 0 THEN 1 ELSE storage_pos

\* TopicTailer::SendLogRecord, called by the storage with its next record.
\* When Forward fails the call returns NoBuffer and the storage delivers the
\* record again later, which leaves the state as it is.
SendLogRecord(topic) ==
  /\ reading
  /\ ReadPos <= MaxSeq
  /\ ReadPos <= Len(log) => log[ReadPos] \in {Unread, topic}
  /\ CanForward
  /\ log' = [Written(log, ReadPos) EXCEPT ![ReadPos] = topic]
  /\ queue' = Append(queue, Command("record", topic, "-", "-", ReadPos, 0))
  /\ storage_pos' = ReadPos + 1
  /\ UNCHANGED <<reading, can_past_end, finds, topic_map, log_state,
                 sent, requested, previous, cancelled, asserted, ret,
                 ncmds>>
  /\ UNCHANGED others

GapKind(type) == IF type = "Benign" THEN "Benign" ELSE "Malignant"
NumGaps(l) == Cardinality({i \in 1..Len(l) : l[i] \in {"Benign", "Malignant"}})

\* TopicTailer::SendGapRecord, called by the storage with a gap [from, to].
SendGapRecord(type, to) ==
  /\ reading
  /\ to \in ReadPos..MaxSeq
  /\ \A i \in ReadPos..to : i <= Len(log) => log[i] \in {Unread, GapKind(type)}
  /\ CanForward
  /\ log' = [i \in 1..Max(Len(log), to) |->
               IF i \in ReadPos..to THEN GapKind(type)
               ELSE IF i <= Len(log) THEN log[i] ELSE Unread]
  /\ NumGaps(log') <= MaxGaps
  /\ queue' = Append(queue, Command("gap", "-", "-", type, ReadPos, to))
  /\ storage_pos' = to + 1
  /\ UNCHANGED <<reading, can_past_end, finds, topic_map, log_state,
                 sent, requested, previous, cancelled, asserted, ret,
                 ncmds>>
  /\ UNCHANGED others

StartSeqnos == 0..MaxStart
GapTypes == {"Benign"} \cup MalignantTypes

Next ==
  \/ /\ ncmds < MaxCmds
     /\ \E topic \in Topics \cup {UnroutedTopic}, start \in StartSeqnos,
           host \in Hosts, find_ok \in BOOLEAN :
          AddSubscriber(topic, start, host, find_ok)
  \/ /\ ncmds < MaxCmds
     /\ \E topic \in Topics \cup {UnroutedTopic}, host \in Hosts :
          RemoveSubscriber(topic, host)
  \/ \E r \in finds, status_ok \in BOOLEAN, seqno \in 1..(MaxSeq + 1) :
       FindLatestSeqnoCallback(r, status_ok, seqno)
  \/ \E topic \in Topics : SendLogRecord(topic)
  \/ \E type \in GapTypes, to \in 1..MaxSeq : SendGapRecord(type, to)
  \/ Worker

Spec == Init /\ [][Next]_vars

\* The storage keeps delivering what it holds and answering what it was
\* asked, and the worker loop keeps running the commands in its queue.
Storage ==
  \/ \E topic \in Topics : SendLogRecord(topic)
  \/ \E type \in GapTypes, to \in 1..MaxSeq : SendGapRecord(type, to)
  \/ \E r \in finds, seqno \in 1..(MaxSeq + 1) :
       FindLatestSeqnoCallback(r, TRUE, seqno)

\* A step that pops the command queue: Worker is the one action that does,
\* and it can whenever the queue is not empty.
WorkerRuns == queue # <<>> /\ queue' = Tail(queue)

FairSpec == Spec /\ WF_queue(WorkerRuns) /\ WF_vars(Storage)

\* ------------------------------------------------- three topics on the log

\* One host subscribes to up to three topics of the log at seqnos it names,
\* while the storage delivers records of the three topics.
LagTopics == Topics \cup {"W"}
MaxLagCmds == 3

LagInit == InitOver(LagTopics)

LagNext ==
  \/ /\ ncmds < MaxLagCmds
     /\ \E topic \in LagTopics, start \in 1..MaxStart :
          AddSubscriber(topic, start, "A", TRUE)
  \/ \E topic \in LagTopics : SendLogRecord(topic)
  \/ Worker

LagSpec == LagInit /\ [][LagNext]_vars

\* -------------------------------------------------------- resubscription

\* Two hosts subscribe to and unsubscribe from topic T at seqnos they name,
\* while the storage delivers records of both topics.
MaxResubCmds == 4

ResubNext ==
  \/ /\ ncmds < MaxResubCmds
     /\ \E start \in 1..MaxStart, host \in Hosts :
          AddSubscriber("T", start, host, TRUE)
  \/ /\ ncmds < MaxResubCmds
     /\ \E host \in Hosts : RemoveSubscriber("T", host)
  \/ \E topic \in Topics : SendLogRecord(topic)
  \/ Worker

ResubSpec == Init /\ [][ResubNext]_vars

\* Host A subscribes to the topics of the log at seqno 1 and unsubscribes
\* from them while the storage reports gaps.
MaxStaleCmds == 4

StaleNext ==
  \/ /\ ncmds < MaxStaleCmds
     /\ \E topic \in Topics : AddSubscriber(topic, 1, "A", TRUE)
  \/ /\ ncmds < MaxStaleCmds
     /\ \E topic \in Topics : RemoveSubscriber(topic, "A")
  \/ \E type \in GapTypes, to \in 1..MaxSeq : SendGapRecord(type, to)
  \/ Worker

StaleSpec == Init /\ [][StaleNext]_vars

\* ------------------------------------------------- storage that can fail

\* The worker loop runs a subscribe command and LogTailer::StartReading
\* fails in it: the storage is called only when the reader has to seek, and
\* the command then ends otherwise than it does for Worker.
WorkerStartFails ==
  /\ queue # <<>>
  /\ Head(queue).op = "subscribe"
  /\ \E m \in {AddSubscriberCommandFails(Machine, Head(queue).topic,
                                          Head(queue).seqno,
                                          Head(queue).host)} :
       /\ m.ls # AddSubscriberCommand(Machine, Head(queue).topic,
                                      Head(queue).seqno, Head(queue).host).ls
       /\ log_state' = m.ls
       /\ topic_map' = m.tm
       /\ sent' = m.sent
       /\ requested' = m.requested
       /\ previous' = m.previous
       /\ reading' = m.reading
       /\ storage_pos' = m.pos
       /\ asserted' = m.asserted
  /\ ret' = Return("subscribe", Head(queue).topic, "IOError")
  /\ queue' = Tail(queue)
  /\ UNCHANGED <<log, can_past_end, finds, cancelled, ncmds>>
  /\ UNCHANGED others

\* Hosts subscribe to and unsubscribe from the topics of the log at seqnos
\* they name, the storage delivers records, and starting to read can fail.
MaxFailCmds == 3

FailNext ==
  \/ /\ ncmds < MaxFailCmds
     /\ \E topic \in Topics, start \in 1..MaxStart, host \in Hosts :
          AddSubscriber(topic, start, host, TRUE)
  \/ /\ ncmds < MaxFailCmds
     /\ \E topic \in Topics, host \in Hosts : RemoveSubscriber(topic, host)
  \/ \E topic \in Topics : SendLogRecord(topic)
  \/ Worker
  \/ WorkerStartFails

FailSpec == Init /\ [][FailNext]_vars

\* Host A subscribes to the topics of the log at seqno 1, the storage
\* reports gaps, and starting to read can fail.
FailGapNext ==
  \/ /\ ncmds < MaxFailCmds
     /\ \E topic \in Topics : AddSubscriber(topic, 1, "A", TRUE)
  \/ \E type \in GapTypes, to \in 1..MaxSeq : SendGapRecord(type, to)
  \/ Worker
  \/ WorkerStartFails

FailGapSpec == Init /\ [][FailGapNext]_vars

\* ------------------------------------------------------- the flow tests

\* What the test thread writes in all: <<input queue, turn of its loop>>.
TestItems(net) ==
  CASE net = "MultiLayerRandomized" ->
         {<<Input(i % 2), i>> : i \in 0..(MaxItems - 1)}
    [] net = "SourcelessFlow" -> {"-"} \X (0..(MaxItems - 1))
    [] OTHER -> Inputs(net) \X (0..(MaxItems - 1))

\* The turn of its loop in which the test thread writes to q next.
Turn(f, q) ==
  IF f.net = "MultiLayerRandomized"
  THEN f.written[Input(0)] + f.written[Input(1)]
  ELSE f.written[q]

\* In a turn of the loop of PartitionedFlow queue0 is written before queue2.
InTurn(f, q) ==
  f.net = "PartitionedFlow" =>
    f.written["queue0"] = f.written["queue2"] + (IF q = "queue2" THEN 1 ELSE 0)

\* The test thread writes its next value to an input queue, which is big
\* enough for all of them (ASSERT_TRUE(queue0->Write(x))).
TestWrite(q, x) ==
  /\ <<q, Turn(flow, q)>> \in TestItems(flow.net)
  /\ InTurn(flow, q)
  /\ x \in Values(flow.net, Turn(flow, q))
  /\ flow' = [flow EXCEPT !.queue[q] = Append(@, Item(q, Turn(flow, q), x)),
                          !.written[q] = @ + 1]
  /\ UNCHANGED notflow

RECURSIVE SourcelessWrites(_, _)
SourcelessWrites(f, i) ==
  IF i = MaxItems THEN f
  ELSE SourcelessWrites(Write(f, NoSource, "queue", Item("-", i, i)), i + 1)

\* The command of SourcelessFlow: kNumMessages writes through a
\* SourcelessFlow to a queue that holds half of them.
SourcelessCommand ==
  /\ flow.net = "SourcelessFlow"
  /\ flow.written["queue"] = 0
  /\ flow' = [SourcelessWrites(flow, 0) EXCEPT !.written["queue"] = MaxItems]
  /\ UNCHANGED notflow

\* The event loop of a source finds it readable and enabled, and runs its
\* callback on the next value.
ReadEvent(q) ==
  /\ q \in Sources(flow.net)
  /\ Installed(flow.net, q)
  /\ QueuesOnly(flow.net, q)
  /\ flow.enabled[q]
  /\ flow.queue[q] # << >>
  /\ flow' = ReadCallback(flow, q)
  /\ UNCHANGED notflow

\* The event loop finds a sink writable that has values waiting.
WriteEvent(sink) ==
  /\ sink \in Sources(flow.net) \ Underlying(flow.net)
  /\ flow.pending[sink] # << >>
  /\ Len(flow.queue[sink]) < Capacity(flow.net, sink)
  /\ flow' = RemoveBackpressure(flow, sink)
  /\ UNCHANGED notflow

\* The command of ObservableMap: obs_map->Write("a", i) and ("b", i).
ObservableMapCommand ==
  /\ flow.net = "ObservableMap"
  /\ flow.written["obs_map"] < MaxItems
  /\ flow' = [flow EXCEPT
       !.map = ObservableMapWrite(
                 ObservableMapWrite(@, "a", flow.written["obs_map"]),
                 "b", flow.written["obs_map"]),
       !.written["obs_map"] = @ + 1]
  /\ UNCHANGED notflow

\* The event loop finds the map enabled and not empty, and reads a key.
ObservableMapEvent(key) ==
  /\ flow.net = "ObservableMap"
  /\ flow.enabled["obs_map"]
  /\ key \in DOMAIN flow.map
  /\ flow' = ObservableMapRead(flow, key)
  /\ UNCHANGED notflow

\* The test thread of ObservableSet: it sets done_after and sends the
\* commands that add a, b and c; when done is posted it clears processed, sets
\* done_after = kNumKeys and sends the command that adds "explode".
ObservableSetTest ==
  /\ flow.net = "ObservableSet"
  /\ \/ /\ flow.test = 0
        /\ \E d \in FirstDoneAfter :
             flow' = [flow EXCEPT !.test = 1, !.done_after = d,
                                  !.commands = <<"a", "b", "c">>]
     \/ /\ flow.test = 1
        /\ flow.done > 0
        /\ flow' = [flow EXCEPT !.test = 2, !.done = @ - 1,
                                !.processed = [key \in SetKeys |-> 0],
                                !.done_after = MaxKeys,
                                !.commands = Append(@, "explode")]
     \/ /\ flow.test = 2
        /\ flow.done > 0
        /\ flow' = [flow EXCEPT !.test = 3, !.done = @ - 1]
  /\ UNCHANGED notflow

\* The event loop runs the next command: obs_set->Add(key).
ObservableSetCommand ==
  /\ flow.net = "ObservableSet"
  /\ flow.commands # << >>
  /\ flow' = [ObservableSetAdd(flow, Head(flow.commands))
                EXCEPT !.commands = Tail(@)]
  /\ UNCHANGED notflow

\* The event loop finds the set enabled and not empty, and reads a key.
ObservableSetEvent(key) ==
  /\ flow.net = "ObservableSet"
  /\ flow.enabled["obs_set"]
  /\ key \in flow.set
  /\ flow' = ObservableSetRead(flow, key)
  /\ UNCHANGED notflow

\* The callback of the RetryLaterSink test: flow->Write(&sink, x).
RetryLaterSinkReadEvent(backoff) ==
  /\ flow.net = "RetryLaterSink"
  /\ flow.enabled["queue"]
  /\ flow.queue["queue"] # << >>
  /\ backoff \in Backoffs(flow)
  /\ flow' = RetryLaterSinkWrite([flow EXCEPT !.queue["queue"] = Tail(@)],
                                 "queue", Head(flow.queue["queue"]), backoff)
  /\ UNCHANGED notflow

\* The timer of the sink fires.
RetryLaterSinkWriteEvent(backoff) ==
  /\ flow.net = "RetryLaterSink"
  /\ flow.pending["sink"] # << >>
  /\ flow.clock >= flow.retry_at
  /\ backoff \in Backoffs(flow)
  /\ flow' = RetryLaterSinkFlush(flow, backoff)
  /\ UNCHANGED notflow

\* Time passes while a timer is waiting; the timer of FlowControl is not
\* late.
Tick ==
  /\ flow.net = "RetryLaterSink"
  /\ flow.pending["sink"] # << >>
  /\ flow.clock < flow.retry_at
  /\ Overdue(flow) = {}
  /\ flow' = [flow EXCEPT !.clock = @ + 1]
  /\ UNCHANGED notflow

\* The callback of the RateLimiterSink test on queue0:
\* flow->Write(rate_limiter_sink.get(), x).
RateLimiterSinkReadEvent ==
  /\ flow.net = "RateLimiterSink"
  /\ flow.enabled["queue0"]
  /\ flow.queue["queue0"] # << >>
  /\ flow' = RateLimiterSinkWrite([flow EXCEPT !.queue["queue0"] = Tail(@)],
                                  "queue0", Head(flow.queue["queue0"]))
  /\ UNCHANGED notflow

\* The write callback of the sink: its timer has fired or the queue behind
\* it has become writable, and both are ready. The queue takes what it was
\* handed, then the sink passes on what it holds.
RateLimiterSinkWriteEvent ==
  /\ flow.net = "RateLimiterSink"
  /\ RateLimiterSinkReady(flow)
  /\ \E f1 \in {FlushPending(flow, "queue1")} :
       \E f2 \in {RateLimiterSinkFlush(f1)} :
         flow' = RateLimiterSinkUnblock(f2)
  /\ UNCHANGED notflow

\* Time passes, as long as the limiter has a period to wait out or the test
\* has not run for long.
TickLimiter ==
  /\ flow.net = "RateLimiterSink"
  /\ flow.clock < MaxClock \/ ~IsAllowed(flow)
  /\ Overdue(flow) = {}
  /\ flow' = [flow EXCEPT !.clock = @ + 1]
  /\ UNCHANGED notflow

\* The command of BackpressureStatsAndLogging:
\* event_loop->GetFlowControl()->UnregisterSource(source_queue.get()).
UnregisterCommand ==
  /\ flow.net = "BackpressureStatsAndLogging"
  /\ "source_queue" \notin flow.unregistered
  /\ flow' = UnregisterSource(flow, "source_queue")
  /\ UNCHANGED notflow

\* The timer of FlowControl finds a source blocked for a warn period.
LogBlocked(q) ==
  /\ flow.net \in Nets
  /\ q \in Overdue(flow)
  /\ flow' = WarnBlocked(flow, q)
  /\ UNCHANGED notflow

\* Time passes in the test that watches a blocked source; the timer is not
\* late.
TickBlocked ==
  /\ flow.net = "BackpressureStatsAndLogging"
  /\ flow.clock < MaxClock
  /\ Overdue(flow) = {}
  /\ flow' = [flow EXCEPT !.clock = @ + 1]
  /\ UNCHANGED notflow

\* ASSERT_OK(proxy->Forward(serial, session, seqno)).
Forward(session, seqno, again) ==
  /\ proxy.started
  /\ Len(proxy.forwarded) < MaxForwards
  /\ proxy' = ProxyForward(proxy, session, seqno, again)
  /\ UNCHANGED notproxy

\* proxy->DestroySession(session), once.
DestroySession(session) ==
  /\ proxy.started
  /\ proxy.destroyed = << >>
  /\ proxy' = ProxyDestroySession(proxy, session)
  /\ UNCHANGED notproxy

\* The servers answer the messages in the order they came in, and the
\* proxy passes the answer to on_message with the session of the message.
Respond(i) ==
  /\ proxy.started
  /\ i \in 1..Len(proxy.servers)
  /\ i \notin proxy.answered
  /\ \A j \in 1..(i - 1) : j \in proxy.answered
  /\ proxy' = [proxy EXCEPT !.answered = @ \cup {i},
                            !.on_message = Append(@, proxy.servers[i])]
  /\ UNCHANGED notproxy

\* The worker state becomes m.
Becomes(m) ==
  /\ log_state' = m.ls
  /\ topic_map' = m.tm
  /\ sent' = m.sent
  /\ requested' = m.requested
  /\ previous' = m.previous
  /\ reading' = m.reading
  /\ storage_pos' = m.pos
  /\ asserted' = m.asserted

\* TopicTailer::AddSubscriber(topic, start, hostnum) with start # 0, and the
\* command it forwards: the subscription is to be served from the cache.
CacheSubscribe(topic, start, host) ==
  /\ cache.seeded
  /\ ncmds < MaxCmds
  /\ requested[topic][host] = NoSub
  /\ ncmds' = ncmds + 1
  /\ ret' = Return("AddSubscriber", topic, "OK")
  /\ Becomes(NewSubscription(Machine, topic, host, start))
  /\ cache' = [cache EXCEPT !.cache_readers =
                  @ \cup {[topic |-> topic, host |-> host, seqno |-> start]}]
  /\ UNCHANGED <<log, can_past_end, queue, finds, cancelled>>
  /\ UNCHANGED notcache

\* TopicTailer::ProcessPendingSubscription for a subscription of
\* cache_readers, with a flow that takes `room` records: what the cache
\* holds is delivered, and the reader is opened unless backpressure was
\* applied.
ProcessPendingSubscription(sub, room) ==
  /\ cache.seeded
  /\ sub \in cache.cache_readers
  /\ LET visited == Visited(cache, sub.topic, sub.seqno, room)
         seqno == NewFrom(cache, sub.topic, sub.seqno, room)
         all == visited = Cached(cache, sub.topic, sub.seqno)
         m == DeliverFromCache(Machine, cache, sub.topic, sub.host,
                               sub.seqno, room)
     IN /\ cache' = AfterRead(cache, sub, room)
        /\ IF all
           THEN Becomes(OpenReader(m, sub.topic, sub.host, seqno))
           ELSE Becomes(m)
  /\ UNCHANGED <<log, can_past_end, queue, finds, cancelled, ret, ncmds>>
  /\ UNCHANGED notcache

\* The cache was seeded with the first records of the log.
CacheInit ==
  /\ pool = NoPool
  /\ \E n \in 1..MaxCached : \E records \in [1..n -> Topics] :
       /\ TailerOver(Topics, records)
       /\ cache = SeededCache(records)
  /\ flow = NoFlow
  /\ proxy = NoProxy

CacheNext ==
  \/ \E topic \in Topics, start \in 1..MaxStart, host \in Hosts :
       CacheSubscribe(topic, start, host)
  \/ \E sub \in cache.cache_readers, room \in 1..MaxRoom :
       ProcessPendingSubscription(sub, room)
  \/ \E topic \in Topics : SendLogRecord(topic)
  \/ Worker

CacheSpec == CacheInit /\ [][CacheNext]_vars

\* A step that serves a subscription of cache_readers with a flow that has
\* room: ProcessPendingSubscription is the one action that does.
CacheReads ==
  \E sub \in cache.cache_readers : cache' = AfterRead(cache, sub, MaxRoom)

\* The event loop keeps processing the subscriptions of cache_readers.
CacheFairSpec == CacheSpec /\ WF_cache(CacheReads)

\* ---------------------------------------------------- readers of a worker

\* A subscriber at `start` is assigned a reader, which starts reading for it.
PoolSubscribe(topic, start, host) ==
  /\ pool.ncmds < MaxPoolCmds
  /\ ~TMHas(pool.tm, topic, host)
  /\ \E r \in {ReaderForNewSubscription(pool, start)} :
       /\ r # 0
       /\ \E m \in {StartReading(
                      [ReaderMachine(pool, r) EXCEPT
                         !.tm = TMAddSubscriber(@, topic, start, host)],
                      topic, start)} :
            pool' = [ReaderBecomes(pool, r, m) EXCEPT
                       !.reader[topic][host] = r,
                       !.start[topic][host] = start,
                       !.ncmds = @ + 1]
  /\ UNCHANGED notpool

\* A subscription ends: its reader stops reading for it, and the tailer
\* attempts to merge that reader into another.
PoolUnsubscribe(topic, host) ==
  /\ pool.ncmds < MaxPoolCmds
  /\ TMHas(pool.tm, topic, host)
  /\ \E r \in {pool.reader[topic][host]} :
       \E m \in {StopReading(
                   [ReaderMachine(pool, r) EXCEPT
                      !.tm = TMRemoveSubscriber(@, topic, host)], topic)} :
         pool' = AttemptReaderMerges(
                   [ReaderBecomes(pool, r, m) EXCEPT
                      !.reader[topic][host] = 0,
                      !.start[topic][host] = NoSub,
                      !.sent[topic][host] = <<>>,
                      !.ncmds = @ + 1], r)
  /\ UNCHANGED notpool

\* The storage reader of `r` delivers its next record, which is dispatched;
\* when that drains the log the tailer attempts to merge `r` into another.
PoolRecord(r) ==
  /\ pool.readers[r].reading
  /\ pool.readers[r].pos \in 1..Len(pool.records)
  /\ \E seqno \in {pool.readers[r].pos} :
       \E m \in {ReaderSendLogRecord(ReaderMachine(pool, r), seqno,
                                     pool.records[seqno])} :
         \E rm \in {ReaderBecomes(pool, r, [m EXCEPT !.pos = seqno + 1])} :
           pool' = IF seqno = Len(rm.records)
                   THEN AttemptReaderMerges(rm, r) ELSE rm
  /\ UNCHANGED notpool

PoolInit ==
  /\ TailerInit(Topics)
  /\ flow = NoFlow
  /\ proxy = NoProxy
  /\ cache = NoCache
  /\ \E records \in [1..MaxSeq -> Topics] : pool = NewPool(records)

PoolNext ==
  \/ \E topic \in Topics, start \in 1..MaxStart, host \in Hosts :
       PoolSubscribe(topic, start, host)
  \/ \E topic \in Topics, host \in Hosts : PoolUnsubscribe(topic, host)
  \/ \E r \in Readers : PoolRecord(r)

PoolSpec == PoolInit /\ [][PoolNext]_vars

ProxyInit ==
  /\ TailerInit(Topics)
  /\ flow = NoFlow
  /\ proxy = NewProxy
  /\ cache = NoCache
  /\ pool = NoPool

ProxyNext ==
  \/ \E session \in Sessions, seqno \in Unordered..MaxSeqno,
        again \in {"drop", "error"} : Forward(session, seqno, again)
  \/ \E session \in Sessions : DestroySession(session)
  \/ \E i \in 1..MaxForwards : Respond(i)

ProxySpec == ProxyInit /\ [][ProxyNext]_vars

FlowInit ==
  /\ TailerInit(Topics)
  /\ \E net \in Nets : flow = NewFlow(net)
  /\ proxy = NoProxy
  /\ cache = NoCache
  /\ pool = NoPool

FlowNext ==
  \/ \E q \in AllQueues, x \in 0..3 : TestWrite(q, x)
  \/ SourcelessCommand
  \/ \E q \in AllQueues : ReadEvent(q)
  \/ \E sink \in AllQueues : WriteEvent(sink)
  \/ ObservableMapCommand
  \/ \E key \in Keys : ObservableMapEvent(key)
  \/ ObservableSetTest
  \/ ObservableSetCommand
  \/ \E key \in SetKeys : ObservableSetEvent(key)
  \/ \E backoff \in 0..MaxBackoff : RetryLaterSinkReadEvent(backoff)
  \/ \E backoff \in 0..MaxBackoff : RetryLaterSinkWriteEvent(backoff)
  \/ Tick
  \/ RateLimiterSinkReadEvent
  \/ RateLimiterSinkWriteEvent
  \/ TickLimiter
  \/ UnregisterCommand
  \/ \E q \in AllQueues : LogBlocked(q)
  \/ TickBlocked

FlowSpec == FlowInit /\ [][FlowNext]_vars

\* The test thread and the event loops keep running: while there is a value
\* to write, a source to read or a sink to flush, one of them is.
FairFlowSpec == FlowSpec /\ WF_vars(FlowNext)

\* ------------------------------------------------------------ observations

Subscribed(t, h) == topic_map[t][h] # NoSub
IsDeliver(msg) == msg.kind = "Deliver"
IsGap(msg) == msg.kind = "Gap"
IsMalignant(msg) == msg.kind = "Gap" /\ msg.type \in MalignantTypes
Delivers(t, h) == SelectSeq(sent[t][h], IsDeliver)
\* The command the worker runs next, if any.
Running(op) == queue # <<>> /\ Head(queue).op = op
\* The next_seqno the reader keeps for topic t, 0 when it keeps none.
TopicNext(t) ==
  IF IndexOf(log_state.topics, t) = 0 THEN 0
  ELSE log_state.topics[IndexOf(log_state.topics, t)].next_seqno

\* ------------------------------------------------------------------- C1

C2_AtMostOnce ==
  \A t \in Topics, h \in Hosts :
    \A i, j \in 1..Len(Delivers(t, h)) :
      Delivers(t, h)[i].b = Delivers(t, h)[j].b => i = j

\* The reader was rewound and read seqno 1 again: g has been sent records 1
\* and 2, each once, and h, who subscribed after both had been read, has been
\* sent record 1 and not 2.
C2_Witness ==
  \E t \in Topics, g, h \in Hosts :
    /\ g # h
    /\ Len(Delivers(t, g)) = 2
    /\ Delivers(t, g)[1].b = 1 /\ Delivers(t, g)[2].b = 2
    /\ Len(Delivers(t, h)) = 1
    /\ Delivers(t, h)[1].b = 1

\* ------------------------------------------------------------------- C3

NoMalignantGap == \A i \in 1..Len(log) : log[i] # "Malignant"

\* The subscriber h of t asked for S, waits for it, and the log holds a
\* record of t at S.
Awaits(t, h, S) ==
  /\ requested[t][h] = S
  /\ topic_map[t][h] = S
  /\ S <= Len(log) /\ log[S] = t
  /\ NoMalignantGap

\* h has been sent the record at S, or a benign gap that covers S.
Served(t, h, S) ==
  \E i \in 1..Len(sent[t][h]) :
    \/ IsDeliver(sent[t][h][i]) /\ sent[t][h][i].b = S
    \/ /\ IsGap(sent[t][h][i]) /\ sent[t][h][i].type = "Benign"
       /\ sent[t][h][i].a <= S /\ S <= sent[t][h][i].b

\* The safety half of C3: the cursor of such a subscriber is not past S
\* unless it has been sent the record at S or a benign gap that covers S.
C3_NeverPassed ==
  \A t \in Topics, h \in Hosts, S \in 1..MaxStart :
    (/\ requested[t][h] = S /\ topic_map[t][h] > S
     /\ S <= Len(log) /\ log[S] = t /\ NoMalignantGap)
    => Served(t, h, S)

AcceptsRecord ==
  /\ Running("record") /\ WorkerRuns
  /\ log_state.open /\ Head(queue).seqno = Add(log_state.last_read, 1)

\* C4 as stated: a subscription that asked for s # 0 is sent no record below
\* s, its Delivers come in increasing seqno order, and a record of T accepted
\* at R is sent to every subscriber of T whose cursor is not 0 and at most R,
\* and to no other subscriber.
C4_AsStated ==
  /\ [](\A t \in Topics, h \in Hosts :
          \A i \in 1..Len(Delivers(t, h)) :
            /\ requested[t][h] # 0 => requested[t][h] <= Delivers(t, h)[i].b
            /\ i > 1 => Delivers(t, h)[i - 1].b < Delivers(t, h)[i].b)
  /\ [][AcceptsRecord =>
          LET T == Head(queue).topic
              R == Head(queue).seqno
          IN \A h \in Hosts :
               IF topic_map[T][h] \notin {NoSub, 0} /\ topic_map[T][h] <= R
               THEN /\ Len(sent'[T][h]) = Len(sent[T][h]) + 1
                    /\ IsDeliver(sent'[T][h][Len(sent'[T][h])])
                    /\ sent'[T][h][Len(sent'[T][h])].b = R
               ELSE sent'[T][h] = sent[T][h]]_vars

\* ------------------------------------------------------------------- C5

\* The worker runs a subscribe or an unsubscribe of h on t in this step.
Replaces(t, h) ==
  /\ WorkerRuns
  /\ Head(queue).op \in {"subscribe", "tail", "unsubscribe"}
  /\ Head(queue).topic = t /\ Head(queue).host = h

\* C5. Between its subscribe and its unsubscribe or replacement the cursor of
\* a subscription never decreases, and a step that sends the subscriber a
\* message (a record, a gap or a bump visited it) leaves the cursor strictly
\* greater than it was.
C5_CursorMonotone ==
  [][\A t \in Topics, h \in Hosts :
       (Subscribed(t, h) /\ ~Replaces(t, h)) =>
         /\ topic_map'[t][h] >= topic_map[t][h]
         /\ sent'[t][h] # sent[t][h] => topic_map'[t][h] > topic_map[t][h]]_vars

\* A subscription that has been visited by a record and by a gap and whose
\* cursor has moved on from where it started.
C5_Witness ==
  \E t \in Topics, h \in Hosts :
    /\ requested[t][h] \notin {NoSub, 0}
    /\ topic_map[t][h] > requested[t][h]
    /\ \E i, j \in 1..Len(sent[t][h]) :
         IsDeliver(sent[t][h][i]) /\ IsGap(sent[t][h][j])

\* ------------------------------------------------------------------- C6

\* The worker runs a record or a gap that the reader does not expect: the log
\* is not open, or the event does not start at last_read + 1.
Rejects ==
  /\ WorkerRuns
  /\ Head(queue).op \in {"record", "gap"}
  /\ ~(log_state.open /\ Head(queue).seqno = Add(log_state.last_read, 1))

\* The worker runs a gap that the reader expects.
AcceptsGap ==
  /\ Running("gap") /\ WorkerRuns
  /\ log_state.open /\ Head(queue).seqno = Add(log_state.last_read, 1)

\* C6. A record or a gap that does not start at last_read + 1, or that comes
\* for a log that is not open, ends with NotFound and is dropped: no message
\* is sent, no cursor changes, last_read stays. An accepted record or gap
\* starts at last_read + 1 and leaves last_read at its last seqno, so the
\* accepted events cover consecutive ranges.
C6_RejectedDropped ==
  [][/\ Rejects =>
          /\ ret'.status = "NotFound"
          /\ sent' = sent /\ topic_map' = topic_map
          /\ log_state'.open = log_state.open
          /\ log_state'.last_read = log_state.last_read
     /\ AcceptsRecord =>
          ret'.status = "OK" /\ log_state'.last_read = Head(queue).seqno
     /\ AcceptsGap =>
          ret'.status = "OK" /\ log_state'.last_read = Head(queue).to]_vars

\* A record has just been rejected on an open log with subscribers.
C6_Witness ==
  /\ ret.op = "record" /\ ret.status = "NotFound"
  /\ log_state.open
  /\ \E t \in Topics, h \in Hosts : Subscribed(t, h)

\* ------------------------------------------------------------------- C7

\* C7. A tail subscription (start 0) is first sent Gap{Benign, 0, tail - 1};
\* as long as nothing is written at or after the tail, that gap is the one
\* message it has been sent and its cursor is the tail.
C7_TailGapOnly ==
  \A t \in Topics, h \in Hosts :
    requested[t][h] = 0 =>
      /\ sent[t][h] # <<>>
      /\ IsGap(sent[t][h][1])
      /\ sent[t][h][1].type = "Benign" /\ sent[t][h][1].a = 0
      /\ Len(log) <= sent[t][h][1].b =>
           /\ Len(sent[t][h]) = 1
           /\ topic_map[t][h] = Add(sent[t][h][1].b, 1)

\* A tail subscriber of t on a storage that cannot subscribe past the end:
\* the reader has read the record at tail - 1 again, a record of t, and the
\* subscriber has been sent the gap alone.
C7_Witness ==
  \E t \in Topics, h \in Hosts :
    /\ requested[t][h] = 0
    /\ can_past_end = "no"
    /\ Len(sent[t][h]) = 1
    /\ sent[t][h][1].b >= 1
    /\ Len(log) = sent[t][h][1].b
    /\ log[Len(log)] = t
    /\ log_state.last_read = Len(log)
    /\ ret = Return("record", t, "OK")

\* ------------------------------------------------------------------- C8

\* The message the claim expects; nothing in TopicTailer builds one.
SubscriptionStatus(status) ==
  [kind |-> "SubscriptionStatus", type |-> status, a |-> 0, b |-> 0]

\* FindLatestSeqno fails for a tail subscribe on t in this step: the call
\* itself, or the status its callback is run with.
FindFails(t) ==
  \/ ncmds' = ncmds + 1 /\ ret' = Return("AddSubscriber", t, "IOError")
  \/ finds' # finds /\ ret' = Return("FindLatestSeqno", t, "IOError")

\* C8 as stated: when FindLatestSeqno fails for a tail subscribe, the
\* subscriber is sent SubscriptionStatus{NotFound}, the request is not
\* retried, no subscription is registered and no log is opened.
C8_AsStated ==
  [][\A t \in Topics :
       FindFails(t) =>
         /\ \E h \in Hosts :
              sent'[t][h] = Append(sent[t][h], SubscriptionStatus("NotFound"))
         /\ queue' = queue /\ finds' \subseteq finds
         /\ topic_map' = topic_map /\ log_state' = log_state]_vars

\* ------------------------------------------------------------------- C9

\* C9. A subscribe or an unsubscribe for a topic the router has no log for
\* returns the router's error at once: nothing is forwarded to the worker,
\* no FindLatestSeqno is issued, and the TopicManager, the reader and the
\* storage stay as they are.
C9_RouterError ==
  [][(ncmds' = ncmds + 1 /\ ret'.topic = UnroutedTopic) =>
       /\ ret'.status = "RouterError"
       /\ UNCHANGED <<queue, finds, topic_map, log_state, reading,
                      storage_pos, sent, requested>>]_vars

\* A call for the unrouted topic has just returned, with a log open and a
\* command waiting in the queue.
C9_Witness ==
  /\ ret.topic = UnroutedTopic /\ ret.status = "RouterError"
  /\ log_state.open
  /\ queue # <<>>

\* ------------------------------------------------------------------ C10

\* The worker accepts a malignant gap in this step.
AcceptsMalignantGap == AcceptsGap /\ Head(queue).type \in MalignantTypes

\* h's latest message on t is a malignant gap that ends at `to`.
LastIsMalignantGap(t, h, to) ==
  /\ sent[t][h] # <<>>
  /\ IsMalignant(sent[t][h][Len(sent[t][h])])
  /\ sent[t][h][Len(sent[t][h])].b = to

Bumped ==
  /\ ret.op = "record" /\ ret.status = "OK"
  /\ IndexOf(log_state.topics, ret.topic) # 0

\* C12 as stated: after BumpLaggingSubscriptions(log, now) returns, every
\* topic of the log's table that has subscribers has
\* next_seqno + max_subscription_lag >= now, in whatever order the
\* subscriptions and records came.
C12_AsStated ==
  Bumped =>
    \A i \in 1..Len(log_state.topics) :
      log_state.topics[i].topic \in VisitTopics(topic_map) =>
        log_state.topics[i].next_seqno + MaxSubscriptionLag
          >= log_state.last_read

\* ------------------------------------------------------------------ C13

\* C13 as stated: when the reader accepts a record at N, on whatever topic,
\* the subscribers of every other subscribed topic T with
\* next_seqno + max_subscription_lag < N are sent Gap{Benign, T's next_seqno,
\* N} and their cursors become N + 1.
C13_AsStated ==
  [][AcceptsRecord =>
       LET N == Head(queue).seqno
       IN \A t \in Topics \ {Head(queue).topic}, h \in Hosts :
            (/\ Subscribed(t, h)
             /\ TopicNext(t) + MaxSubscriptionLag < N
             /\ TopicNext(t) <= topic_map[t][h] /\ topic_map[t][h] <= N)
            => /\ sent'[t][h] =
                    Append(sent[t][h], Gap("Benign", TopicNext(t), N))
               /\ topic_map'[t][h] = Add(N, 1)]_vars

\* ------------------------------------------------------------------ C14

\* C14 as stated: on an open log start_seqno <= last_read + 1, and
\* last_read + 1 <= tail_seqno whenever tail_seqno # 0.
C14_AsStated ==
  log_state.open =>
    /\ log_state.start_seqno <= log_state.last_read + 1
    /\ log_state.tail_seqno # 0 =>
         log_state.last_read + 1 <= log_state.tail_seqno

\* ------------------------------------------------------------------ C15

StartsReading(t, s) ==
  /\ WorkerRuns
  /\ Head(queue).op \in {"subscribe", "tail"}
  /\ Head(queue).topic = t /\ ~Subscribed(t, Head(queue).host)
  /\ \/ Head(queue).op = "subscribe" /\ s = Head(queue).seqno
     \/ /\ Head(queue).op = "tail"
        /\ s = IF can_past_end' = "yes" THEN Head(queue).seqno
                ELSE Sub(Head(queue).seqno, 1)

\* StartReading leaves the reader where it is: no storage call, last_read
\* as it was, and t's next_seqno at min(next_seqno, s).
KeepsReading(t, s) ==
  /\ reading' = reading /\ storage_pos' = storage_pos
  /\ log_state'.last_read = log_state.last_read
  /\ log_state'.start_seqno = log_state.start_seqno
  /\ TopicNext(t)' = IF IndexOf(log_state.topics, t) # 0 /\ TopicNext(t) < s
                     THEN TopicNext(t) ELSE s

\* StartReading has the storage read from s: last_read = s - 1.
SeeksTo(s) ==
  /\ reading' /\ storage_pos' = s
  /\ log_state'.open /\ log_state'.last_read = Sub(s, 1)

\* C16 as stated: on a log that is not open StartReading(t, log, s) opens
\* the storage reader at s with start_seqno = s and last_read = s - 1; on an
\* open log it reseeks the storage to s if and only if s < last_read + 1,
\* and otherwise leaves the reader alone and lowers t's next_seqno to
\* min(next_seqno, s).
C16_AsStated ==
  [][\A t \in Topics, s \in 0..(MaxSeq + 1) :
       StartsReading(t, s) =>
         IF ~log_state.open
         THEN SeeksTo(s) /\ log_state'.start_seqno = s
         ELSE IF s < log_state.last_read + 1
              THEN SeeksTo(s)
              ELSE KeepsReading(t, s)]_vars

\* C16, amended: on an open log StartReading(t, log, s) reseeks the storage
\* to s if and only if s <= last_read and t is new to the log's table or
\* s < t's next_seqno; the reseek leaves last_read = s - 1 and
\* start_seqno = min(start_seqno, s) and keeps the per-topic entries.
\* Otherwise, also with s <= last_read, it makes no storage call, leaves
\* last_read alone and lowers t's next_seqno to min(next_seqno, s).
C16_Reseek ==
  [][\A t \in Topics, s \in 0..(MaxSeq + 1) :
       StartsReading(t, s) =>
         IF ~log_state.open
         THEN SeeksTo(s) /\ log_state'.start_seqno = s
         ELSE IF /\ s <= log_state.last_read
                 /\ IndexOf(log_state.topics, t) = 0 \/ s < TopicNext(t)
              THEN /\ SeeksTo(s)
                   /\ log_state'.start_seqno =
                        (IF s < log_state.start_seqno THEN s
                         ELSE log_state.start_seqno)
                   /\ \A u \in Topics \ {t} : TopicNext(u)' = TopicNext(u)
              ELSE KeepsReading(t, s)]_vars

\* A host has just subscribed at a seqno the reader has read, to a topic
\* the reader knows from below that seqno: the reader was not rewound.
C16_Witness ==
  /\ ret.op = "subscribe" /\ ret.status = "OK"
  /\ \E h \in Hosts :
       /\ requested[ret.topic][h] >= 1
       /\ topic_map[ret.topic][h] = requested[ret.topic][h]
       /\ sent[ret.topic][h] = <<>>
       /\ TopicNext(ret.topic) < requested[ret.topic][h]
       /\ requested[ret.topic][h] <= log_state.last_read
       /\ log_state.last_read <= MaxSeq

\* ------------------------------------------------------------------ C17

Subscriptions == {p \in Topics \X Hosts : Subscribed(p[1], p[2])}

IsPrefix(s, t) ==
  Len(s) <= Len(t) /\ \A i \in 1..Len(s) : s[i] = t[i]
Comparable(s, t) == IsPrefix(s, t) \/ IsPrefix(t, s)
\* The (prev_seqno, seqno) pairs, and the seqnos, of the Delivers in msgs.
Pairs(msgs) ==
  [i \in 1..Len(SelectSeq(msgs, IsDeliver)) |->
     <<SelectSeq(msgs, IsDeliver)[i].a, SelectSeq(msgs, IsDeliver)[i].b>>]
Seqnos(msgs) ==
  [i \in 1..Len(SelectSeq(msgs, IsDeliver)) |->
     SelectSeq(msgs, IsDeliver)[i].b]
\* h is subscribed to t again, at the seqno of the subscription its
\* unsubscribe ended.
Resubscribed(t, h) ==
  /\ Subscribed(t, h)
  /\ requested[t][h] # 0 /\ requested[t][h] = previous[t][h].start

C19_AsStated ==
  [][\A r \in finds :
       (finds' = finds \ {r} /\ r.id \in cancelled) => queue' = queue]_vars

\* ------------------------------------------------------------------ C20

\* The worker runs a record on an open log that is at or past the tail
\* estimate: ProcessRecord reports is_tail.
TailRecord ==
  /\ Running("record") /\ WorkerRuns /\ log_state.open
  /\ log_state.tail_seqno # 0
  /\ log_state.tail_seqno <= Head(queue).seqno

\* h subscribed to t at the tail (start 0) and waits for a record at or
\* below R.
TailSubscriber(t, h, R) ==
  /\ requested[t][h] = 0 /\ Subscribed(t, h)
  /\ topic_map[t][h] <= R

Semaphores(net) ==
  CASE net = "PartitionedFlow" -> {{"queue01"}, {"queue23"}}
    [] net = "Fanout" -> {{"queue01"}, {"queue02"}}
    [] net = "MultiLayerRandomized" -> {Layer(2)}
    [] net = "SourcelessFlow" -> {{"queue"}}
    [] OTHER -> {}

\* The input queues whose values end at the semaphore.
Feeds(net, S) ==
  CASE net = "PartitionedFlow" /\ S = {"queue01"} -> {"queue0"}
    [] net = "PartitionedFlow" /\ S = {"queue23"} -> {"queue2"}
    [] net = "SourcelessFlow" -> {"-"}
    [] OTHER -> Inputs(net)

\* The places of posted[q] that hold the id-th value written to `from`.
PostsAt(q, from, id) ==
  {i \in 1..Len(flow.posted[q]) :
     flow.posted[q][i].from = from /\ flow.posted[q][i].id = id}

\* How often a semaphore was posted for that value.
Posts(S, from, id) ==
  Cardinality({<<q, i>> \in S \X (1..MaxItems * 2) : i \in PostsAt(q, from, id)})

Overflowed == \E q \in AllQueues : flow.pending[q] # << >>

AtMostOnce ==
  \A S \in Semaphores(flow.net), from \in AllQueues \cup {"-"},
     id \in 0..(MaxItems - 1) :
    /\ Posts(S, from, id) <= 1
    /\ Posts(S, from, id) = 1 =>
         <<from, id>> \in TestItems(flow.net) /\ from \in Feeds(flow.net, S)

AllPosted ==
  \A S \in Semaphores(flow.net) :
    \A w \in TestItems(flow.net) :
      w[1] \in Feeds(flow.net, S) => Posts(S, w[1], w[2]) = 1

\* C21: no item is lost or duplicated under backpressure. In each of the
\* tests (one pipeline that overflows beside one that does not, a fan-out to
\* two sinks, layers of processors that route by value, writes through a
\* SourcelessFlow to a queue that holds half of them) a value written is
\* never posted twice to a semaphore, and in the end every value written has
\* been posted exactly once to each semaphore its pipeline ends at.
C21_ExactlyOnce == []AtMostOnce /\ <>[]AllPosted

\* Sources were paused and resumed in the layered network, and everything
\* has arrived.
C21_Witness ==
  /\ flow.net = "MultiLayerRandomized"
  /\ flow.backpressure_lifted >= 2
  /\ AllPosted

\* ------------------------------------------------------------------ C22

\* The sinks that block a source: it wrote to them when they were full, and
\* they have not taken all they hold since.
Blocking(q) == {s \in AllQueues : q \in flow.backpressure[s]}

\* The source callback of q ran and one of its writes found `sink` full.
FindsFull(q, sink) ==
  /\ flow.queue[q] # << >>
  /\ flow'.queue[q] = Tail(flow.queue[q])
  /\ Len(flow'.pending[sink]) > Len(flow.pending[sink])

\* The sink a source writes to when its value is meant for the queue u.
Before(u) ==
  IF u \in Underlying(flow.net) THEN "rate_limiter_sink" ELSE u

PausedWhileFull ==
  /\ \A q \in Sources(flow.net) \ flow.unregistered :
        /\ flow.enabled[q] <=> Blocking(q) = {}
        /\ \A s \in Blocking(q) :
              \E u \in AllQueues : Before(u) = s /\ flow.pending[u] # << >>
  /\ flow.net = "PartitionedFlow" =>
        flow.enabled["queue2"] /\ flow.enabled["queue23"]

\* C22: a source is paused exactly while a sink it wrote to is full. A
\* source whose write finds the sink full is disabled by that write; it is
\* disabled exactly as long as some sink it found full still holds values it
\* could not take; a source that found no sink full is enabled, so the
\* pipeline of PartitionedFlow that does not overflow is never paused.
C22_PausedWhileFull ==
  /\ []PausedWhileFull
  /\ [][\A q \in Sources(flow.net), s \in AllQueues :
          FindsFull(q, s) =>
            ~flow'.enabled[q] /\ Before(s) \in Blocking(q)']_vars

\* The source of Fanout found both its sinks full at its second value; one
\* of them has taken it since and the source is still paused by the other.
C22_Witness ==
  /\ flow.net = "Fanout"
  /\ ~flow.enabled["queue0"]
  /\ flow.backpressure_applied = 1
  /\ flow.pending["queue01"] = << >>
  /\ flow.pending["queue02"] # << >>
  /\ Len(flow.posted["queue01"]) = 1
  /\ Len(flow.queue["queue01"]) = 1
  /\ flow.posted["queue02"] = << >>

\* ------------------------------------------------------------------ C23

\* The values of a key the reader of the ObservableMap test has observed.
RECURSIVE Observed(_, _)
Observed(posted, key) ==
  IF posted = << >> THEN << >>
  ELSE (IF Head(posted).from = key THEN <<Head(posted).x>> ELSE << >>)
       \o Observed(Tail(posted), key)

\* The values of a key on their way to the reader, oldest first: what the
\* reader's queue holds, what waits for room in it, what waits in the map.
OnItsWay(key) ==
  Observed(flow.queue["queue"] \o flow.pending["queue"], key)
  \o (IF key \in DOMAIN flow.map THEN <<flow.map[key]>> ELSE << >>)

Increasing(seq) == \A i, j \in 1..Len(seq) : i < j => seq[i] < seq[j]

Delivered(key) ==
  Cardinality({i \in 1..Len(flow.posted["obs_set"]) :
                 flow.posted["obs_set"][i].from = key})

OncePerAddition ==
  \A key \in SetKeys :
    Delivered(key) + (IF key \in flow.set THEN 1 ELSE 0) = flow.kept[key]

\* The callback ran for the last time it waits for, and cleared the set.
Clears == flow.done_after = 1 /\ flow'.done_after = 0

\* The second part of the ObservableSet test has ended.
SetTestEnded ==
  /\ flow.test = 3
  /\ flow.set = {}
  /\ flow.processed["explode"] = 1
  /\ flow.processed["explode again"] =
       MaxKeys - 1 - (flow.processed["a"] + flow.processed["b"]
                      + flow.processed["c"])
  /\ flow.processed["explode again"] >= 1

RECURSIVE Accepted(_)
Accepted(offers) ==
  IF offers = << >> THEN << >>
  ELSE (IF Head(offers).backoff = 0 THEN <<Head(offers).x>> ELSE << >>)
       \o Accepted(Tail(offers))

RetriedInTime ==
  \A i \in 1..Len(flow.offers) :
    flow.offers[i].backoff > 0 /\ i < Len(flow.offers) =>
      /\ flow.offers[i + 1].x = flow.offers[i].x
      /\ flow.offers[i + 1].at >= flow.offers[i].at + flow.offers[i].backoff

\* C25: RetryLaterSink offers a value again that its handler answered with
\* RetryAfter(d). The offer that follows such an answer is of the same value
\* and is made d or more later; the values are taken in the order they were
\* written, each once, and in the end all of them have been taken.
C25_RetryLater ==
  /\ [](flow.net = "RetryLaterSink" =>
         /\ RetriedInTime
         /\ Accepted(flow.offers) = [i \in 1..Len(Accepted(flow.offers)) |-> i - 1])
  /\ <>[](flow.net = "RetryLaterSink" => Len(Accepted(flow.offers)) = MaxItems)

\* A value was offered three times, while the next one was waiting in the
\* queue, before it was taken, and then the next one was.
C25_Witness ==
  /\ flow.net = "RetryLaterSink"
  /\ Len(flow.offers) >= 4
  /\ flow.offers[1].backoff = 1
  /\ flow.offers[2].backoff = MaxBackoff
  /\ flow.offers[2].at = 1
  /\ flow.offers[3].backoff = 0
  /\ flow.offers[3].at = 1 + MaxBackoff
  /\ flow.offers[4].x = 1

\* ------------------------------------------------------------------ C26

\* The writes the RateLimiterSink passed on from time t to before t + D.
PassedWithin(t) ==
  {i \in 1..Len(flow.passed) :
     t <= flow.passed[i].at /\ flow.passed[i].at < t + RateDuration}

AnyWindow(n) ==
  \A t \in 0..(MaxClock + RateDuration) : Cardinality(PassedWithin(t)) <= n

\* The writes passed on in a period of the limiter are RateLimit or fewer,
\* and a period is RateDuration long.
EachPeriod ==
  \A i \in 1..Len(flow.passed) :
    /\ Cardinality({j \in 1..Len(flow.passed) :
                      flow.passed[j].period = flow.passed[i].period})
         <= RateLimit
    /\ flow.passed[i].period <= flow.passed[i].at
    /\ flow.passed[i].at < flow.passed[i].period + RateDuration

\* The source is paused exactly while the sink or the queue behind it holds
\* a value it could not take, and what the sink holds it has not passed on.
HeldBack ==
  /\ flow.enabled["queue0"] <=>
       /\ flow.pending["rate_limiter_sink"] = << >>
       /\ flow.pending["queue1"] = << >>
  /\ \A i \in 1..Len(flow.pending["rate_limiter_sink"]) :
       \A j \in 1..Len(flow.passed) :
         flow.passed[j].x # flow.pending["rate_limiter_sink"][i].x

\* What the reader of queue1 was handed.
Read1 == [i \in 1..Len(flow.posted["queue1"]) |-> flow.posted["queue1"][i].x]

Blocked(f) == {q \in Sources(f.net) : f.blockers[q] > 0}

\* The warnings about q since it was blocked last.
WarnedSince(q) ==
  {i \in 1..Len(flow.warnings) :
     /\ flow.warnings[i].source = q
     /\ flow.warnings[i].at > flow.blocked_since[q]}

\* The counters count the sources that became blocked and those that are no
\* longer; a source is blocked while a sink blocks it.
Accounted ==
  /\ flow.backpressure_lifted <= flow.backpressure_applied
  /\ flow.backpressure_applied - flow.backpressure_lifted
       = Cardinality(Blocked(flow))
  /\ \A q \in Sources(flow.net) :
       flow.blockers[q] = Cardinality({s \in AllQueues : q \in flow.backpressure[s]})

\* A blocked source has been warned about at every warn period since it was
\* blocked, and the next warning is not late.
WarnedInTime ==
  \A q \in Blocked(flow) :
    /\ flow.clock <= flow.warn_at[q]
    /\ \A k \in 1..MaxClock :
         flow.blocked_since[q] + k * WarnPeriod < flow.warn_at[q] =>
           \E i \in WarnedSince(q) :
             flow.warnings[i].at = flow.blocked_since[q] + k * WarnPeriod

\* A step counts each source it blocks and each source it unblocks once,
\* and warns only about a source that is blocked.
CountedOnce ==
  /\ flow'.backpressure_applied - flow.backpressure_applied
       = Cardinality(Blocked(flow') \ Blocked(flow))
  /\ flow'.backpressure_lifted - flow.backpressure_lifted
       = Cardinality(Blocked(flow) \ Blocked(flow'))
  /\ flow'.warnings # flow.warnings =>
       /\ Len(flow'.warnings) = Len(flow.warnings) + 1
       /\ flow'.warnings[Len(flow'.warnings)].source \in Blocked(flow)
       /\ flow'.warnings[Len(flow'.warnings)].source \notin flow.unregistered

RECURSIVE Reached(_, _, _)
Reached(servers, session, e) ==
  IF servers = << >> THEN << >>
  ELSE LET m == Head(servers)
       IN (IF m.session = session /\ m.epoch = e /\ m.seqno # Unordered
           THEN <<m.seqno>> ELSE << >>)
          \o Reached(Tail(servers), session, e)

\* The ids of the messages that reached the servers.
AtServers(p) == {p.servers[i].id : i \in 1..Len(p.servers)}

InSeqnoOrder ==
  \A s \in Sessions, e \in 0..(MaxForwards + 1) :
    LET r == Reached(proxy.servers, s, e)
    IN /\ r = [i \in 1..Len(r) |-> i - 1]
       /\ e = proxy.epoch[s] => Len(r) = proxy.next[s]

\* What is held for a session is ahead of what the session expects, and is
\* with the servers only once it is no longer held.
HeldBehind ==
  \A s \in Sessions : \A m \in proxy.held[s] :
    /\ m.session = s
    /\ m.seqno > proxy.next[s]
    /\ m.id \notin AtServers(proxy)

\* An ordered message that was forwarded is with the servers, or is held,
\* unless its session was forgotten since or it could not be ordered.
ReleasedInTime ==
  \A i \in 1..Len(proxy.forwarded) :
    LET m == proxy.forwarded[i]
    IN /\ m.seqno = Unordered => m.id \in AtServers(proxy)
       /\ /\ m.seqno # Unordered
          /\ m.epoch = proxy.epoch[m.session]
          /\ m.seqno >= m.expected
          /\ \A j \in 1..(i - 1) :
                proxy.forwarded[j].session = m.session
                /\ proxy.forwarded[j].epoch = m.epoch
                => proxy.forwarded[j].seqno # m.seqno
          => IF m.seqno < proxy.next[m.session]
             THEN m.id \in AtServers(proxy)
             ELSE m \in proxy.held[m.session]

\* A message forwarded for a session does nothing to another session.
OneSession ==
  Len(proxy'.forwarded) > Len(proxy.forwarded) =>
    LET m == proxy'.forwarded[Len(proxy'.forwarded)]
    IN /\ \A t \in Sessions \ {m.session} :
            /\ proxy'.next[t] = proxy.next[t]
            /\ proxy'.held[t] = proxy.held[t]
            /\ proxy'.epoch[t] = proxy.epoch[t]
       /\ \A i \in (Len(proxy.servers) + 1)..Len(proxy'.servers) :
            proxy'.servers[i].session = m.session
       /\ m.seqno = Unordered =>
            /\ proxy'.servers = Append(proxy.servers, m)
            /\ proxy'.next = proxy.next
            /\ proxy'.held = proxy.held

\* C28: the messages forwarded for a session with seqnos reach the servers
\* in the order of their seqnos, counted from 0 since the proxy first heard
\* of the session; a message ahead of the seqno its session expects is held
\* until the seqnos below it have been forwarded, and is then with the
\* servers together with the held ones that follow it; a message forwarded
\* with seqno -1 reaches the servers at once and changes nothing else; a
\* message of one session changes nothing of another.
C28_SessionOrder ==
  /\ [](proxy.started => InSeqnoOrder /\ HeldBehind /\ ReleasedInTime)
  /\ [][proxy.started /\ proxy'.started => OneSession]_vars

\* TEST(ProxyTest, Publish): seqno -1, then 1 and 2, which were held, then
\* 0; all four have been answered in that order and no session was dropped.
C28_Witness ==
  /\ proxy.started
  /\ Len(proxy.on_message) = 4
  /\ [i \in 1..4 |-> proxy.on_message[i].seqno] = <<Unordered, 0, 1, 2>>
  /\ [i \in 1..4 |-> proxy.on_message[i].id] = <<0, 3, 1, 2>>
  /\ \A i \in 1..4 : proxy.on_message[i].session = 123
  /\ proxy.on_disconnect = << >>

\* ------------------------------------------------------------------ C29

\* The message forwarded last.
LastForwarded(p) == p.forwarded[Len(p.forwarded)]

\* A message that does not fit the buffer of its session makes the proxy
\* drop the session and call on_disconnect for it; the message is neither
\* held nor handed on.
DroppedWhenTooFar ==
  Len(proxy'.forwarded) > Len(proxy.forwarded) =>
    LET m == LastForwarded(proxy')
    IN m.seqno - m.expected > OrderingBufferSize =>
         /\ proxy'.on_disconnect = Append(proxy.on_disconnect, m.session)
         /\ proxy'.servers = proxy.servers
         /\ proxy'.held[m.session] = {}
         /\ proxy'.next[m.session] = 0
         /\ m.session \notin proxy'.known

\* The messages of the destroyed session that were answered though they
\* were forwarded after DestroySession.
AnsweredAfterDestroy ==
  {i \in 1..Len(proxy.on_message) :
     \E d \in 1..Len(proxy.destroyed) :
       /\ proxy.on_message[i].session = proxy.destroyed[d].session
       /\ proxy.on_message[i].id >= proxy.destroyed[d].at}

ForgottenWhenDestroyed ==
  \A i \in AnsweredAfterDestroy :
    LET r == proxy.on_message[i]
    IN \/ r.seqno = Unordered
       \/ \E j \in 1..Len(proxy.forwarded) :
            /\ proxy.forwarded[j].session = r.session
            /\ proxy.forwarded[j].epoch = r.epoch
            /\ proxy.forwarded[j].seqno = 0

InCache(t, h) == \E sub \in cache.cache_readers : sub.topic = t /\ sub.host = h

\* The seqno the subscription is to be sent next.
Cursor(t, h) ==
  IF InCache(t, h)
  THEN (CHOOSE sub \in cache.cache_readers : sub.topic = t /\ sub.host = h).seqno
  ELSE topic_map[t][h]

\* The seqnos of the records the subscription was sent.
Records(t, h) ==
  LET D == {i \in 1..Len(sent[t][h]) : sent[t][h][i].kind = "Deliver"}
  IN [k \in 1..Cardinality(D) |->
        sent[t][h][CHOOSE i \in D : Cardinality({j \in D : j <= i}) = k].b]

\* The seqnos in S in their order.
RECURSIVE Ascending(_)
Ascending(S) ==
  IF S = {} THEN << >>
  ELSE LET i == CHOOSE i \in S : \A j \in S : i <= j
       IN <<i>> \o Ascending(S \ {i})

\* The messages sent from the cache come first and are the cached records of
\* the topic from the start seqno on; while they are sent no reader is open
\* for the subscription.
CacheFirst(t, h) ==
  LET n == cache.from_cache[t][h]
  IN /\ n <= Len(sent[t][h])
     /\ \A i \in 1..n : sent[t][h][i].kind = "Deliver"
     /\ [i \in 1..n |-> sent[t][h][i].b] =
          Ascending({i \in Cached(cache, t, requested[t][h]) : i < Cursor(t, h)})
     /\ InCache(t, h) =>
          /\ ~TMHas(topic_map, t, h)
          /\ Len(sent[t][h]) = n
          /\ (\A u \in Topics, g \in Hosts : ~TMHas(topic_map, u, g))
               => ~log_state.open /\ ~reading

\* The records sent are the records of the topic from the start seqno up to
\* the cursor, each once and in order.
OnceInOrder(t, h) ==
  Records(t, h) =
    Ascending({i \in requested[t][h]..Len(log) :
                 log[i] = t /\ i < Cursor(t, h)})

\* The first message a subscription is sent after records from the cache.
FirstLive(t, h) == sent[t][h][cache.from_cache[t][h] + 1]

HasFirstLive(t, h) ==
  /\ requested[t][h] # NoSub
  /\ cache.from_cache[t][h] >= 1
  /\ Len(sent[t][h]) > cache.from_cache[t][h]
  /\ FirstLive(t, h).kind = "Deliver"

HandedOver(t, h) ==
  ~TMHas(topic_map, t, h) /\ TMHas(topic_map', t, h) =>
    /\ topic_map'[t][h] = Max(requested[t][h], Len(cache.records) + 1)
    /\ log_state'.open
    /\ cache'.from_cache[t][h] =
         Cardinality(Cached(cache, t, requested[t][h]))

PoolSubscribed(t, h) == pool.built /\ TMHas(pool.tm, t, h)

\* The seqnos of the records sent to the subscription, in the order sent.
PoolSeqnos(t, h) ==
  LET d == SelectSeq(pool.sent[t][h], IsDeliver)
  IN [i \in 1..Len(d) |-> d[i].b]

\* The records on the topic at or after the subscription's start.
PoolOwed(t, h) ==
  {i \in pool.start[t][h]..Len(pool.records) : pool.records[i] = t}

\* The reader has read the log to its end.
Drained(r) ==
  /\ pool.readers[r].ls.open
  /\ pool.readers[r].ls.last_read = Len(pool.records)

\* Once its reader has read the log to the end, a subscriber has been sent
\* every record on its topic from its start on, and none of them twice.
NoneMissedNoneTwice ==
  \A t \in Topics, h \in Hosts :
    PoolSubscribed(t, h) =>
      /\ Increasing(PoolSeqnos(t, h))
      /\ Drained(pool.reader[t][h]) =>
           PoolOwed(t, h) \subseteq
             {PoolSeqnos(t, h)[i] : i \in 1..Len(PoolSeqnos(t, h))}

Merges == pool.built /\ pool'.built /\ Len(pool'.merges) = Len(pool.merges) + 1
LastMerge == pool'.merges[Len(pool'.merges)]

\* A merge hands every subscription of the source to the target, which has
\* an entry for its topic, and closes the source, which stops reading.
TakenOver ==
  Merges =>
    /\ LastMerge.dst_last >= LastMerge.src_last
    /\ \A t \in Topics, h \in Hosts :
         TMHas(pool'.tm, t, h) /\ pool.reader[t][h] = LastMerge.src =>
           /\ pool'.reader[t][h] = LastMerge.dst
           /\ IndexOf(pool'.readers[LastMerge.dst].ls.topics, t) # 0
    /\ pool'.readers[LastMerge.src] = ClosedReader
    /\ pool'.readers[LastMerge.dst].reading

BumpRuns ==
  AcceptsRecord /\ IndexOf(log_state.topics, Head(queue).topic) # 0

\* The log's table when bump_lagging is called: ProcessRecord has run.
TableAtBump ==
  ProcessRecord(log_state, Head(queue).seqno, Head(queue).topic)[4].topics

Lagging(e, now) == Add(e.next_seqno, MaxSubscriptionLag) < now

\* on_bump(topic, old_next) ran at most once for the entry: each subscriber
\* of the topic was sent the gap (old_next, now) once or nothing.
BumpedOnce(e, now) ==
  \A h \in Hosts :
    \/ sent'[e.topic][h] = sent[e.topic][h]
    \/ sent'[e.topic][h] =
         Append(sent[e.topic][h], Gap("Benign", e.next_seqno, now))

\* C32. With max_subscription_lag >= 0 a call of bump_lagging(log, now,
\* on_bump) ends, with the lagging topics at the front of the list bumped once
\* each: they are at the back with next_seqno = now + 1, the topic now in
\* front is not lagging, and the topics that were not bumped keep their
\* next_seqno and their order and are sent nothing by the bump.
C32_BumpOnce ==
  [][BumpRuns =>
       LET now == Head(queue).seqno
           before == TableAtBump
           after == log_state'.topics
       IN /\ "bump loop does not end" \notin asserted'
          /\ \E k \in 0..Len(before) :
               /\ \A i \in 1..k : Lagging(before[i], now)
               /\ k < Len(before) => ~Lagging(before[k + 1], now)
               /\ after = SubSeq(before, k + 1, Len(before)) \o
                            [i \in 1..k |->
                               [before[i] EXCEPT !.next_seqno = Add(now, 1)]]
               /\ \A i \in 1..k : BumpedOnce(before[i], now)
               /\ \A i \in (k + 1)..Len(before) :
                    before[i].topic # Head(queue).topic =>
                      \A h \in Hosts :
                        sent'[before[i].topic][h] = sent[before[i].topic][h]
     ]_vars

\* One call has bumped two topics: the record at last_read was accepted, the
\* two topics before its own at the back of the list are at last_read + 1,
\* and their subscriber was sent a gap that ends at last_read.
C32_Witness ==
  /\ Bumped
  /\ Len(log_state.topics) = 3
  /\ \A i \in 1..3 :
       log_state.topics[i].next_seqno = Add(log_state.last_read, 1)
  /\ \A i \in 2..3 :
       LET msgs == sent[log_state.topics[i].topic]["A"]
       IN /\ msgs # <<>>
          /\ IsGap(msgs[Len(msgs)])
          /\ msgs[Len(msgs)].b = log_state.last_read

\* ---------------------------------------------------------------------- C33

\* The tail find_latest_seqno returned for the tail subscription of h on t:
\* the subscription's first message is the gap (0, tail - 1).
TailOf(t, h) == Add(sent[t][h][1].b, 1)

\* No record sent to a tail subscription is below its tail.
NoneBelowTail ==
  \A t \in Topics, h \in Hosts :
    requested[t][h] = 0 =>
      \A i \in 1..Len(sent[t][h]) :
        IsDeliver(sent[t][h][i]) => sent[t][h][i].b >= TailOf(t, h)

\* The record at tail - 1, which the reader accepts when it was started
\* there, leaves the tail subscription as it is.
TailMinusOneSkipped ==
  AcceptsRecord =>
    \A h \in Hosts :
      LET t == Head(queue).topic
      IN (/\ requested[t][h] = 0 /\ Subscribed(t, h)
          /\ Head(queue).seqno = Sub(TailOf(t, h), 1))
         => /\ sent'[t][h] = sent[t][h]
            /\ topic_map'[t][h] = topic_map[t][h]

\* C33. A tail subscriber is never sent a record whose seqno is below the
\* tail find_latest_seqno returned: the record at tail - 1, which the reader
\* accepts when the storage cannot subscribe past the end and the reader was
\* started at tail - 1, is not delivered to it, and its first Deliver has
\* seqno >= tail.
C33_NotBelowTail == []NoneBelowTail /\ [][TailMinusOneSkipped]_vars

\* On a storage that cannot subscribe past the end the reader was started
\* at tail - 1 for a tail subscriber of t and has read the records at
\* tail - 1 and at the tail, both on t: the subscriber was sent the gap and
\* then the record at the tail alone.
C33_Witness ==
  \E t \in Topics, h \in Hosts :
    /\ requested[t][h] = 0
    /\ can_past_end = "no"
    /\ Len(sent[t][h]) = 2
    /\ IsDeliver(sent[t][h][2])
    /\ sent[t][h][2].b = TailOf(t, h)
    /\ TailOf(t, h) >= 2
    /\ log[TailOf(t, h) - 1] = t
    /\ log_state.start_seqno = TailOf(t, h) - 1
    /\ log_state.last_read = TailOf(t, h)

\* ---------------------------------------------------------------------- C34

\* The worker runs a record that ProcessRecord rejects with NotFound.
RejectsRecord == Rejects /\ Head(queue).op = "record"

\* C34 as stated: a record that process_record rejects with NotFound leaves
\* the reader's state for the log exactly as it was: start_seqno, last_read,
\* the tail estimate, every topic's next_seqno and the order of the topics.
C34_AsStated == [][RejectsRecord => log_state' = log_state]_vars

\* The rejected record is at or past the tail estimate of the open log.
PastEstimate ==
  /\ log_state.open
  /\ log_state.tail_seqno # 0
  /\ log_state.tail_seqno <= Head(queue).seqno

\* C34, amended: a record that process_record rejects with NotFound leaves
\* start_seqno, last_read, every topic's next_seqno and the order of the
\* topics as they were, and nothing is sent; the tail estimate is the one
\* field it can change: an out-of-order record on an open log that has an
\* estimate <= seqno moves the estimate to seqno + 1 before it is rejected.
C34_RejectedFrame ==
  [][RejectsRecord =>
       /\ ret'.status = "NotFound"
       /\ sent' = sent /\ topic_map' = topic_map
       /\ log_state' =
            [log_state EXCEPT !.tail_seqno =
               IF PastEstimate THEN Add(Head(queue).seqno, 1) ELSE @]]_vars

\* A record was rejected on an open log with topics in its table and a tail
\* estimate that is past the next seqno the reader expects.
C34_Witness ==
  /\ ret.op = "record" /\ ret.status = "NotFound"
  /\ log_state.open
  /\ log_state.topics # <<>>
  /\ log_state.tail_seqno > Add(log_state.last_read, 1)

\* ---------------------------------------------------------------------- C35

\* The worker has run a subscribe in which the storage failed to start.
StartFailed == ret'.op = "subscribe" /\ ret'.status = "IOError" /\ WorkerRuns

TableTopics(ls) == {ls.topics[i].topic : i \in 1..Len(ls.topics)}

\* No counter of the reader is below zero.
CountsNotNegative ==
  /\ log_state.num_subscribers >= 0
  /\ \A i \in 1..Len(log_state.topics) :
       log_state.topics[i].num_subscribers >= 0

\* C35 as stated: when the storage start_reading call fails inside
\* start_reading the subscribe has no lasting effect: no log entry with zero
\* subscribers and no new topic entry is left in the reader, subscriber
\* counts are unchanged, the TopicManager keeps no subscriber that the reader
\* holds no reading state for, and no later unsubscribe drives a counter
\* below zero.
C35_AsStated ==
  /\ []CountsNotNegative
  /\ [][StartFailed =>
          /\ ~(log_state'.open /\ log_state'.num_subscribers = 0)
          /\ TableTopics(log_state') \subseteq TableTopics(log_state)
          /\ ~Subscribed(Head(queue).topic, Head(queue).host) =>
               /\ log_state'.num_subscribers = log_state.num_subscribers
               /\ topic_map'[Head(queue).topic][Head(queue).host] = NoSub
     ]_vars

\* ---------------------------------------------------------------------- C36

\* The log's num_subscribers is the number of (topic, subscriber) entries
\* of the TopicManager.
CountsSubscriptions ==
  log_state.num_subscribers = Cardinality(Subscriptions)

\* The worker runs a subscribe for a subscriber the TopicManager has.
Resubscribes ==
  /\ Running("subscribe") /\ WorkerRuns
  /\ Subscribed(Head(queue).topic, Head(queue).host)

\* The worker runs an unsubscribe for a subscriber the TopicManager has not.
UnsubscribesNoOne ==
  /\ Running("unsubscribe") /\ WorkerRuns
  /\ ~Subscribed(Head(queue).topic, Head(queue).host)

\* C36. With storage calls succeeding, after any sequence of subscribe,
\* re-subscribe and unsubscribe commands the log's num_subscribers equals the
\* number of (topic, subscriber) entries of the TopicManager: a re-subscribe
\* replaces the start seqno and leaves the count as it is, and an unsubscribe
\* of a subscriber that is not registered changes nothing.
C36_CountsSubscriptions ==
  /\ []CountsSubscriptions
  /\ [][/\ Resubscribes =>
             /\ topic_map'[Head(queue).topic][Head(queue).host]
                  = Head(queue).seqno
             /\ log_state'.num_subscribers = log_state.num_subscribers
        /\ UnsubscribesNoOne =>
             /\ log_state' = log_state /\ topic_map' = topic_map
             /\ sent' = sent /\ reading' = reading
     ]_vars

\* Four commands have run, none of them an unsubscribe of a registered
\* subscriber, and two subscribers are registered and counted: two of the
\* commands were re-subscribes or unsubscribes of no one.
C36_Witness ==
  /\ ncmds = 4 /\ queue = <<>>
  /\ Cardinality(Subscriptions) = 2
  /\ log_state.num_subscribers = 2
  /\ \A t \in Topics, h \in Hosts : previous[t][h] = NoSubscription
  /\ ret.op = "subscribe"

\* ---------------------------------------------------------------------- C37

SubscribersOf(t) == {h \in Hosts : Subscribed(t, h)}

\* C37 as stated: for every topic in the per-topic table of the open log,
\* TopicState.num_subscribers equals the number of subscribers registered on
\* the topic in the TopicManager, and the table holds no topic whose last
\* subscriber has been removed.
C37_AsStated ==
  log_state.open =>
    \A i \in 1..Len(log_state.topics) :
      /\ log_state.topics[i].num_subscribers
           = Cardinality(SubscribersOf(log_state.topics[i].topic))
      /\ SubscribersOf(log_state.topics[i].topic) # {}

\* ---------------------------------------------------------------------- C38

HasEntry(t) == IndexOf(log_state.topics, t) # 0

\* C38. On an open log, for every subscriber registered on a topic with a
\* cursor that is not 0, the next_seqno of the topic's entry in the reader's
\* table is <= the subscriber's cursor: the range [prev_seqno, seqno] of
\* the next record on the topic never starts above a waiting subscriber.
C38_AsStated ==
  log_state.open =>
    \A t \in Topics, h \in Hosts :
      (Subscribed(t, h) /\ topic_map[t][h] # 0 /\ HasEntry(t)) =>
        TopicNext(t) <= topic_map[t][h]

\* The topic of such a subscriber has an entry in the table.
SubscribedHasEntry ==
  log_state.open =>
    \A t \in Topics, h \in Hosts :
      (Subscribed(t, h) /\ topic_map[t][h] # 0) => HasEntry(t)

\* ---------------------------------------------------------------------- C39

GapAssertion == "SendGapRecord: assert(prev_seqno != 0)"

\* C39. The assertion prev_seqno != 0 of gap dispatch never fails: whenever
\* a validated gap is dispatched on a log, every topic with a subscriber on
\* that log has an entry in the reader's table with next_seqno other than 0.
C39_AsStated == GapAssertion \notin asserted

\* ---------------------------------------------------------------------- C40

ReseekAssertion == "StartReading: assert(reseek)"

\* C40. The assertion assert(reseek) of StartReading never fails: whenever
\* the requested seqno is below the log's start_seqno a reseek of the storage
\* is issued.
C40_AsStated == ReseekAssertion \notin asserted

====
